---- MODULE Spec2Model ----
(***************************************************************************)
(* The element/key/diff engine of StardustXR asteroids.                    *)
(*                                                                         *)
(* The repository holds four reconcilers:                                  *)
(*   "element"    src/src/element.rs + dynamic_element.rs, driven by       *)
(*                client.rs (statically typed children: (), (A, B),        *)
(*                Vec<E>, Option<E>, DynamicElement)                       *)
(*   "scenegraph" src/src/scenegraph.rs (children are a Vec<Element>,      *)
(*                diffed as hash sets of keys, explicit identify)          *)
(*   "lib"        src/src/lib.rs (the first set-based reconciler, keys are *)
(*                hashes of the path)                                      *)
(*   "tree"       src/src/tree.rs (flattened tree, positional children)    *)
(* The variable impl says which of them runs; it never changes.            *)
(*                                                                         *)
(* Hashes (DefaultHasher) are modelled as injective: a key is the sequence *)
(* of the numbers fed to the hasher.                                       *)
(***************************************************************************)
EXTENDS Naturals, Sequences, FiniteSets, TLC

\* longest list of children the reified trees hold
MaxKids == 3
\* number of distinct identity hints passed to identify
NumHints == 3
\* most frame events one batch of root events holds
MaxFrames == 2

VARIABLES
    impl,         \* which reconciler of the repository runs
    pc,           \* "idle": between passes; "diffed": the pass has diffed, the old tree is not yet replaced
    old_element,  \* the tree of the previous pass (client.rs old_element, lib.rs vdom_root)
    new_elem,     \* the tree reified in this pass, with the keys the pass stamped on it
    inner_map,    \* ElementInnerMap: key -> handle
    pre_map,      \* inner_map as it was when the pass began
    resources,    \* ResourceRegistry: the set of resource types that have an entry
    log,          \* the leaf calls and map removals of this pass, in order
    frames,       \* the frame calls of the last frame pass, in order
    projected,    \* what the lenses' projectors gave in the last pass: "Some", "None"; "-": no pass yet
    batch,        \* the number of Frame events the pass was run for; 0: no pass since the last replace
    watch_loops,  \* the watch tasks that are not aborted: held (the keys whose FileWatcherInner
                  \* holds one as its watch_loop) and loose (how many no handle holds)
    bumps,        \* tree.rs Trees: the arena that backs current and the one that backs old (0: None)
    steps,        \* client.rs: what the last run of the closure of sync_event_loop did, in order
    migration,    \* util/migrate.rs: a run of deserialize_with_migrate (the file, the calls
                  \* that have not returned, the value returned last)
    model_inner,  \* elements/model.rs, elements.rs: the handle of one Model (ModelInner) with the
                  \* declarations of its last update
    watcher,      \* elements/file_watcher.rs: one FileWatcher, its flag, its watch task and
                  \* the position of update
    startup       \* client.rs: what state() finds (environment, files, the server's reply),
                  \* where it is, and the state it returns

vars ==
    <<impl, pc, old_element, new_elem, inner_map, pre_map, resources, log, frames, projected,
      batch, watch_loops, bumps, steps, migration, model_inner, watcher,
      startup>>

\* the reconcilers and their driver
engine ==
    <<impl, pc, old_element, new_elem, inner_map, pre_map, resources, log, frames, projected,
      batch, watch_loops, bumps, steps>>

\* what happens before the event loop of client.rs starts
aside == <<migration, model_inner, watcher, startup>>

(***************************************************************************)
(* Keys, handles, the map and the registry                                 *)
(***************************************************************************)

\* TypeId::of::<E>() of a leaf element type
TypeId(t) ==
    CASE t = "Spatial" -> 101
      [] t = "Text" -> 102
      [] t = "Model" -> 103
      [] t = "FileWatcher" -> 104

\* the u64 that identify() computes from a hint: DefaultHasher over the hint alone
HashHint(h) == 1000 + h

NoKey == <<>>
NoTree == [k |-> "none"]
\* the client root's spatial (client.get_root())
RootSpace == <<>>
EmptyMap == <<>>

\* every leaf element type of the model declares `type Resource = ()`
ResourceOf(t) == "unit"

\* create_inner of the leaf: a Model whose resource (version 1 of its
\* declaration) cannot be loaded fails, everything else succeeds
CreateOk(type, decl) == ~(type = "Model" /\ decl[2] = 1)

\* the handle create_inner returns: the type of its Inner, the spatial it
\* owns (named by the key it is created for), and whether this pass created it.
\* What the handle was created from and updated with is recorded in the log.
NewHandle(type, key) == [ty |-> type, space |-> key, fresh |-> TRUE]

\* ElementInnerMap::insert
MapInsert(m, key, h) ==
    [x \in (DOMAIN m) \cup {key} |-> IF x = key THEN h ELSE m[x]]

\* ElementInnerMap::remove
MapRemove(m, key) == [x \in (DOMAIN m) \ {key} |-> m[x]]

\* ElementInnerMap::get / get_mut: Some only when the entry downcasts to E::Inner
MapHas(m, key, type) == key \in DOMAIN m /\ m[key].ty = type

\* the handles that exist when a pass begins are no longer fresh
Aged(m) == [x \in DOMAIN m |-> [m[x] EXCEPT !.fresh = FALSE]]

\* one observed call: op is "create", "update" or "remove"
Ev(op, key, type, decl, old, parent, ok) ==
    [op |-> op, key |-> key, ty |-> type, decl |-> decl, old |-> old,
     parent |-> parent, ok |-> ok]

\* one observed frame call: the leaf's frame for frame event number f
Fr(f, key, type) == [f |-> f, key |-> key, ty |-> type]

\* a get that hands out a default value without keeping it in the registry
ResGet_NoInsert(r, type) == r

\* ResourceRegistry::get: get-or-default-insert
ResGet(r, type) == r \cup {ResourceOf(type)}

(***************************************************************************)
(* The watch tasks of src/src/elements/file_watcher.rs                     *)
(***************************************************************************)

NoWatch == [held |-> {}, loose |-> 0]

\* Drop for FileWatcherInner, run when the handle stored under key leaves the
\* map: self.watch_loop.abort(); a handle of another type holds no task
DropInner(w, key) == [w EXCEPT !.held = @ \ {key}]

\* FileWatcher::create_inner and the insert of its result under key: a task
\* is spawned and its abort handle is the watch_loop of the new handle
CreateInnerFW(w, key) == [w EXCEPT !.held = @ \cup {key}]

\* an update that spawns the task of the new path without aborting the old one
UpdateFW_NoAbort(w, key, old_decl, decl) ==
    IF old_decl[2] # decl[2]
    THEN [held |-> w.held \cup {key}, loose |-> IF key \in w.held THEN w.loose + 1 ELSE w.loose]
    ELSE w
\* FileWatcher::update of the handle under key; the watched path is the
\* version of the declaration: on another path inner.watch_loop is aborted
\* and replaced by the abort handle of a new task
UpdateFW(w, key, old_decl, decl) ==
    IF old_decl[2] # decl[2]
    THEN CreateInnerFW(DropInner(w, key), key)
    ELSE w

\* what one call of a pass does to the watch tasks: an insert drops the
\* handle that the key held, a removal drops the handle of the key
CallWatch(w, e) ==
    CASE e.op = "create" /\ e.ok ->
            IF e.ty = "FileWatcher" THEN CreateInnerFW(DropInner(w, e.key), e.key)
            ELSE DropInner(w, e.key)
      [] e.op = "update" /\ e.ty = "FileWatcher" -> UpdateFW(w, e.key, e.old, e.decl)
      [] e.op = "remove" /\ e.ok -> DropInner(w, e.key)
      [] OTHER -> w
\* the watch tasks after the calls l[i], l[i + 1], ... of a pass
RECURSIVE RunWatch(_, _, _)
RunWatch(w, l, i) == IF i > Len(l) THEN w ELSE RunWatch(CallWatch(w, l[i]), l, i + 1)

(***************************************************************************)
(* "element": src/src/element.rs                                           *)
(***************************************************************************)

Unit == [k |-> "unit"]
Pair(a, b) == [k |-> "pair", a |-> a, b |-> b]
VecOf(ety, items) == [k |-> "vec", ety |-> ety, items |-> items]
OptOf(ety, item) == [k |-> "opt", ety |-> ety, item |-> item]
Dyn(inner) == [k |-> "dyn", inner |-> inner]
El(type, decl, sid, children) ==
    [k |-> "el", type |-> type, decl |-> decl, stable_id |-> sid,
     children |-> children, inner_key |-> NoKey]

\* TypeId::of::<T>() of a statically typed element, as the sequence that names T
RECURSIVE TyOf(_)
TyOf(e) ==
    CASE e.k = "unit" -> <<1>>
      [] e.k = "pair" -> <<2>> \o TyOf(e.a) \o TyOf(e.b)
      [] e.k = "vec" -> <<3>> \o e.ety
      [] e.k = "opt" -> <<4>> \o e.ety
      [] e.k = "dyn" -> <<5>>
      [] e.k = "el" -> <<6, TypeId(e.type)>> \o TyOf(e.children)

\* a key generator that leaves the position out of the hash: the siblings of
\* one type under one parent then share a key
positionless_inner_key(ty, parent_key, position) ==
    parent_key \o ty

\* generate_positional_inner_key::<T>(parent_key, position)
generate_positional_inner_key(ty, parent_key, position) ==
    parent_key \o <<position>> \o ty

\* generate_keyed_inner_key::<T>(parent_key, stable_id)
generate_keyed_inner_key(ty, parent_key, stable_id) ==
    parent_key \o <<stable_id>> \o ty

\* Identifiable::identify for ElementWrapper
IdentifyW(e, h) == [e EXCEPT !.stable_id = HashHint(h)]

\* the key each wrapper's OnceLock holds after create_inner_recursive or
\* diff_same_type visited it with inner_key
RECURSIVE StampW(_, _)
StampW(e, inner_key) ==
    CASE e.k = "unit" -> e
      [] e.k = "pair" ->
            [e EXCEPT !.a = StampW(e.a, generate_positional_inner_key(TyOf(e.a), inner_key, 0)),
                      !.b = StampW(e.b, generate_positional_inner_key(TyOf(e.b), inner_key, 1))]
      [] e.k = "vec" ->
            [e EXCEPT !.items = [i \in 1..Len(e.items) |->
                StampW(e.items[i], generate_positional_inner_key(e.ety, inner_key, i - 1))]]
      [] e.k = "opt" ->
            [e EXCEPT !.item = [i \in 1..Len(e.item) |-> StampW(e.item[i], inner_key)]]
      [] e.k = "dyn" -> [e EXCEPT !.inner = StampW(e.inner, inner_key)]
      [] e.k = "el" ->
            [e EXCEPT !.inner_key = inner_key, !.children = StampW(e.children, inner_key)]

\* ElementDiffer::destroy_inner_recursive (all shapes); old elements carry their stamped keys
RECURSIVE DestroyW(_, _)
RECURSIVE DestroySeqW(_, _, _)
DestroySeqW(items, i, st) ==
    IF i > Len(items) THEN st ELSE DestroySeqW(items, i + 1, DestroyW(items[i], st))
DestroyW(e, st) ==
    CASE e.k = "unit" -> st
      [] e.k = "pair" -> DestroyW(e.b, DestroyW(e.a, st))
      [] e.k = "vec" -> DestroySeqW(e.items, 1, st)
      [] e.k = "opt" -> DestroySeqW(e.item, 1, st)
      [] e.k = "dyn" -> DestroyW(e.inner, st)
      [] e.k = "el" ->
            LET st1 == DestroyW(e.children, st)
            IN  IF e.inner_key = NoKey THEN st1
                ELSE [st1 EXCEPT
                        !.m = MapRemove(st1.m, e.inner_key),
                        !.l = Append(st1.l, Ev("remove", e.inner_key, e.type, <<>>, <<>>, <<>>,
                                               e.inner_key \in DOMAIN st1.m))]

\* ElementDiffer::create_inner_recursive (all shapes)
RECURSIVE CreateW(_, _, _, _)
RECURSIVE CreateVecW(_, _, _, _, _, _)
CreateVecW(items, i, ety, inner_key, parent_space, st) ==
    IF i > Len(items) THEN st
    ELSE CreateVecW(items, i + 1, ety, inner_key, parent_space,
            CreateW(items[i], generate_positional_inner_key(ety, inner_key, i - 1),
                    parent_space, st))
CreateW(e, inner_key, parent_space, st) ==
    CASE e.k = "unit" -> st
      [] e.k = "pair" ->
            CreateW(e.b, generate_positional_inner_key(TyOf(e.b), inner_key, 1), parent_space,
                CreateW(e.a, generate_positional_inner_key(TyOf(e.a), inner_key, 0),
                        parent_space, st))
      [] e.k = "vec" -> CreateVecW(e.items, 1, e.ety, inner_key, parent_space, st)
      [] e.k = "opt" ->
            IF Len(e.item) = 0 THEN st ELSE CreateW(e.item[1], inner_key, parent_space, st)
      [] e.k = "dyn" -> CreateW(e.inner, inner_key, parent_space, st)
      [] e.k = "el" ->
            LET ok == CreateOk(e.type, e.decl)
                st1 == [st EXCEPT
                        !.m = IF ok
                              THEN MapInsert(st.m, inner_key,
                                             NewHandle(e.type, inner_key))
                              ELSE st.m,
                        !.r = ResGet(st.r, e.type),
                        !.l = Append(st.l, Ev("create", inner_key, e.type, e.decl, <<>>,
                                              parent_space, ok))]
                child_parent_space ==
                    IF MapHas(st1.m, inner_key, e.type) THEN st1.m[inner_key].space
                    ELSE parent_space
            IN  CreateW(e.children, inner_key, child_parent_space, st1)

\* ElementDiffer::frame_recursive (all shapes) for frame event number f
RECURSIVE FrameW(_, _, _, _)
RECURSIVE FrameSeqW(_, _, _, _, _)
FrameSeqW(items, i, f, m, acc) ==
    IF i > Len(items) THEN acc ELSE FrameSeqW(items, i + 1, f, m, FrameW(items[i], f, m, acc))
FrameW(e, f, m, acc) ==
    CASE e.k = "unit" -> acc
      [] e.k = "pair" -> FrameW(e.b, f, m, FrameW(e.a, f, m, acc))
      [] e.k = "vec" -> FrameSeqW(e.items, 1, f, m, acc)
      [] e.k = "opt" -> FrameSeqW(e.item, 1, f, m, acc)
      [] e.k = "dyn" -> FrameW(e.inner, f, m, acc)
      [] e.k = "el" ->
            FrameW(e.children, f, m,
                   IF e.inner_key # NoKey /\ MapHas(m, e.inner_key, e.type)
                   THEN Append(acc, Fr(f, e.inner_key, e.type)) ELSE acc)

\* client.rs: for each frame of the batch, frame_recursive on the old tree
RECURSIVE FramePassW(_, _, _, _, _)
\* a loop that runs frame_recursive for the first frame of the batch only
FramePassW_FirstOnly(old_elem, f, n, m, acc) == FrameW(old_elem, f, m, acc)
FramePassW(old_elem, f, n, m, acc) ==
    IF f > n THEN acc ELSE FramePassW(old_elem, f + 1, n, m, FrameW(old_elem, f, m, acc))

\* a diff that calls create_inner again for a node whose handle is missing
DiffSelfW_Retries(e, inner_key, old, parent_space, st) ==
    IF MapHas(st.m, inner_key, e.type)
    THEN [st EXCEPT
          !.r = ResGet(st.r, e.type),
          !.l = Append(st.l, Ev("update", inner_key, e.type, e.decl, old.decl, <<>>, TRUE))]
    ELSE LET ok == CreateOk(e.type, e.decl)
         IN  [st EXCEPT
              !.m = IF ok THEN MapInsert(st.m, inner_key, NewHandle(e.type, inner_key))
                    ELSE st.m,
              !.r = ResGet(st.r, e.type),
              !.l = Append(st.l, Ev("create", inner_key, e.type, e.decl, <<>>,
                                    parent_space, ok))]

\* a diff whose update of a node takes the node's handle out of the map
DiffSelfW_DropsHandle(e, inner_key, old, parent_space, st) ==
    IF MapHas(st.m, inner_key, e.type)
    THEN [st EXCEPT
          !.m = MapRemove(st.m, inner_key),
          !.r = ResGet(st.r, e.type),
          !.l = Append(st.l, Ev("update", inner_key, e.type, e.decl, old.decl, <<>>, TRUE))]
    ELSE st

\* ElementWrapper::diff_same_type, "Diff this element": the update of a node
\* that has a handle; a node without one is left alone
DiffSelfW(e, inner_key, old, parent_space, st) ==
    IF MapHas(st.m, inner_key, e.type)
    THEN [st EXCEPT
          !.r = ResGet(st.r, e.type),
          !.l = Append(st.l, Ev("update", inner_key, e.type, e.decl, old.decl, <<>>, TRUE))]
    ELSE st

\* ElementDiffer::diff_same_type (all shapes) and DynamicDiffer::diff_dynamic
RECURSIVE DiffW(_, _, _, _, _)
RECURSIVE DiffVecW(_, _, _, _, _, _, _)
DiffVecW(items, olds, i, ety, inner_key, parent_space, st) ==
    IF i > Len(items) \/ i > Len(olds) THEN st
    ELSE DiffVecW(items, olds, i + 1, ety, inner_key, parent_space,
            DiffW(items[i], generate_positional_inner_key(ety, inner_key, i - 1), olds[i],
                  parent_space, st))
\* an Option diff that leaves a child that went away in the map
DiffOptW_KeepsRemoved(e, inner_key, old, parent_space, st) ==
    CASE Len(e.item) = 1 /\ Len(old.item) = 1 ->
            DiffW(e.item[1], inner_key, old.item[1], parent_space, st)
      [] Len(e.item) = 1 /\ Len(old.item) = 0 ->
            CreateW(e.item[1], inner_key, parent_space, st)
      [] OTHER -> st
\* Option<E>::diff_same_type; the item is <<>> for None and <<x>> for Some(x)
DiffOptW(e, inner_key, old, parent_space, st) ==
    CASE Len(e.item) = 1 /\ Len(old.item) = 1 ->
            DiffW(e.item[1], inner_key, old.item[1], parent_space, st)
      [] Len(e.item) = 1 /\ Len(old.item) = 0 ->
            CreateW(e.item[1], inner_key, parent_space, st)
      [] Len(e.item) = 0 /\ Len(old.item) = 1 -> DestroyW(old.item[1], st)
      [] OTHER -> st
DiffW(e, inner_key, old, parent_space, st) ==
    CASE e.k = "unit" -> st
      [] e.k = "pair" ->
            DiffW(e.b, generate_positional_inner_key(TyOf(e.b), inner_key, 1), old.b, parent_space,
                DiffW(e.a, generate_positional_inner_key(TyOf(e.a), inner_key, 0), old.a,
                      parent_space, st))
      [] e.k = "vec" ->
            LET min_len == IF Len(e.items) < Len(old.items) THEN Len(e.items) ELSE Len(old.items)
                common == DiffVecW(e.items, old.items, 1, e.ety, inner_key, parent_space, st)
                gone == DestroySeqW(old.items, min_len + 1, common)
            IN  CreateVecW(e.items, min_len + 1, e.ety, inner_key, parent_space, gone)
      [] e.k = "opt" -> DiffOptW(e, inner_key, old, parent_space, st)
      [] e.k = "dyn" ->
            IF TyOf(e.inner) = TyOf(old.inner)
            THEN DiffW(e.inner, inner_key, old.inner, parent_space, st)
            ELSE CreateW(e.inner, inner_key, parent_space, DestroyW(old.inner, st))
      [] e.k = "el" ->
            LET st1 == DiffSelfW(e, inner_key, old, parent_space, st)
                child_parent_space ==
                    IF MapHas(st1.m, inner_key, e.type) THEN st1.m[inner_key].space
                    ELSE parent_space
            IN  DiffW(e.children, inner_key, old.children, child_parent_space, st1)

(***************************************************************************)
(* Trees with a Vec of children: scenegraph.rs, lib.rs, tree.rs            *)
(***************************************************************************)

\* ElementWrapper { params, inner_key, children } (scenegraph.rs, lib.rs),
\* FlatElement { element, children, id } (tree.rs); hint 0: identify was not called
Node(type, hint, decl, kids) ==
    [type |-> type, hint |-> hint, decl |-> decl, kids |-> kids, inner_key |-> NoKey,
     lens |-> FALSE]

\* Element::map (scenegraph.rs, mapped.rs: MappedElement { element, mapper }),
\* FlatmapElement { wrapped, mapper } (tree.rs): the element behind a projector
\* of the state; type, key and scene node are those of the wrapped element
Lens(e) == [e EXCEPT !.lens = TRUE]
Wrapped(e) == [e EXCEPT !.lens = FALSE]

\* the order in which a FxHashSet of children is iterated, as the order
\* ord[1], ord[2], ... of their indices in the Vec: the table is walked from
\* any index on, upwards or downwards (every order of up to three children)
Orders ==
    {[n \in 1..MaxKids |-> ((start + n - 2) % MaxKids) + 1] : start \in 1..MaxKids}
    \cup {[n \in 1..MaxKids |-> ((start + MaxKids - n) % MaxKids) + 1] : start \in 1..MaxKids}

\* the widest list of children in a tree, and the orders of Orders that meet
\* the indices 1..k in different orders (one of each): two orders that agree
\* on the indices a pass iterates give the same pass
RECURSIVE WidthOf(_)
WidthOf(e) ==
    IF e = NoTree THEN 0
    ELSE LET below == {WidthOf(e.kids[i]) : i \in 1..Len(e.kids)} \cup {Len(e.kids)}
         IN  CHOOSE w \in below : \A x \in below : x <= w
Restrict(ord, k) == SelectSeq(ord, LAMBDA i : i <= k)
OrdersFor(k) ==
    {CHOOSE o \in Orders : Restrict(o, k) = r : r \in {Restrict(o, k) : o \in Orders}}
OrdersTable == [k \in 0..MaxKids |-> OrdersFor(k)]
OrdersOf(old, new) ==
    LET a == WidthOf(old)
        b == WidthOf(new)
    IN  OrdersTable[IF a > b THEN a ELSE b]

KeysOfKids(kids) == {kids[i].inner_key : i \in 1..Len(kids)}
KidWithKey(kids, key) == kids[CHOOSE i \in 1..Len(kids) : kids[i].inner_key = key]

\* FxHashSet::from_iter over elements, whose Hash and Eq are those of their
\* keys: an element whose key is in the set already is not inserted
FromIter(items) ==
    {items[i] : i \in {i \in DOMAIN items :
                        \A j \in 1..(i - 1) : items[j].inner_key # items[i].inner_key}}
\* FxHashSet::difference: the elements of a that equal no element of b
Difference(a, b) == {x \in a : \A y \in b : y.inner_key # x.inner_key}

\* DeltaSet::default
DeltaSetDefault == [added |-> {}, current |-> {}, removed |-> {}]
\* a push_new that replaces current before it takes the differences
push_new_CurrentFirst(self, new) ==
    LET new_set == FromIter(new)
        self1 == [self EXCEPT !.current = new_set]
    IN  [self1 EXCEPT !.added = Difference(new_set, self1.current),
                      !.removed = Difference(self1.current, new_set)]
\* DeltaSet::push_new
push_new(self, new) ==
    LET new_set == FromIter(new)
    IN  [added |-> Difference(new_set, self.current),
         removed |-> Difference(self.current, new_set),
         current |-> new_set]
\* the DeltaSet of diff_and_apply: the old children pushed, then the new ones
DeltaOf(olds, news) == push_new(push_new(DeltaSetDefault, olds), news)

(***************************************************************************)
(* "scenegraph": src/src/scenegraph.rs                                     *)
(***************************************************************************)

\* Element::identify, then GenericElement::apply_element_keys for ElementWrapper
RECURSIVE StampG(_, _, _)
StampG(e, parent_path, order) ==
    LET identified == e.hint # 0
        self_path_segment ==
            <<IF identified THEN HashHint(e.hint) ELSE order, TypeId(e.type)>>
        path == IF identified THEN self_path_segment ELSE parent_path \o self_path_segment
        inner_key == IF identified THEN <<HashHint(e.hint)>> ELSE path
    IN  [e EXCEPT !.inner_key = inner_key,
                  !.kids = [i \in 1..Len(e.kids) |-> StampG(e.kids[i], path, i - 1)]]

\* ElementWrapper::destroy_inner_recursive
RECURSIVE DestroyG(_, _)
RECURSIVE DestroyKidsG(_, _, _)
DestroyKidsG(kids, i, st) ==
    IF i > Len(kids) THEN st ELSE DestroyKidsG(kids, i + 1, DestroyG(kids[i], st))
DestroyG(e, st) ==
    LET st1 == DestroyKidsG(e.kids, 1, st)
    IN  IF e.inner_key = NoKey THEN st1
        ELSE [st1 EXCEPT
                !.m = MapRemove(st1.m, e.inner_key),
                !.l = Append(st1.l, Ev("remove", e.inner_key, e.type, <<>>, <<>>, <<>>,
                                       e.inner_key \in DOMAIN st1.m))]

\* ElementWrapper::create_inner_recursive; st.err: it returned Err
RECURSIVE CreateG(_, _, _)
RECURSIVE CreateKidsG(_, _, _, _)
CreateKidsG(kids, i, spatial, st) ==
    IF i > Len(kids) \/ st.err THEN st
    ELSE CreateKidsG(kids, i + 1, spatial, CreateG(kids[i], spatial, st))
CreateG(e, parent_space, st) ==
    LET ok == CreateOk(e.type, e.decl)
        called == [st EXCEPT
                    !.r = ResGet(st.r, e.type),
                    !.l = Append(st.l, Ev("create", e.inner_key, e.type, e.decl, <<>>,
                                          parent_space, ok))]
        inserted == [called EXCEPT
                    !.m = MapInsert(called.m, e.inner_key,
                                    NewHandle(e.type, e.inner_key))]
    IN  IF ~ok \/ e.inner_key = NoKey THEN [called EXCEPT !.err = TRUE]
        ELSE CreateKidsG(e.kids, 1, inserted.m[e.inner_key].space, inserted)

\* ElementWrapper::frame_recursive: a node without a handle returns before its children
\* MappedElement::frame_recursive returns when the mapper gives None
RECURSIVE FrameG(_, _, _, _)
RECURSIVE FrameKidsG(_, _, _, _, _)
FrameKidsG(kids, i, m, some, acc) ==
    IF i > Len(kids) THEN acc
    ELSE FrameKidsG(kids, i + 1, m, some, FrameG(kids[i], m, some, acc))
\* a frame_recursive that forwards to the wrapped element whatever the mapper gives
FrameG_IgnoresMapper(e, m, some, acc) ==
    IF e.inner_key = NoKey \/ ~MapHas(m, e.inner_key, e.type) THEN acc
    ELSE FrameKidsG(e.kids, 1, m, some, Append(acc, Fr(1, e.inner_key, e.type)))
FrameG(e, m, some, acc) ==
    IF e.lens /\ ~some THEN acc
    ELSE IF e.inner_key = NoKey \/ ~MapHas(m, e.inner_key, e.type) THEN acc
    ELSE FrameKidsG(e.kids, 1, m, some, Append(acc, Fr(1, e.inner_key, e.type)))

Panic(st) == [st EXCEPT !.p = TRUE]

\* inner_map.get_mut::<State, E>(inner_key) of the update of e gives None
NoInner(st, e, old) ==
    [st EXCEPT !.l = Append(@, Ev("get_mut", e.inner_key, e.type, e.decl, old.decl, <<>>, FALSE))]

\* ElementWrapper::diff_and_apply
RECURSIVE DiffG(_, _, _, _, _)
RECURSIVE CommonG(_, _, _, _, _, _)
RECURSIVE RemovedG(_, _, _, _, _)
RECURSIVE AddedG(_, _, _, _, _, _)
CommonG(news, olds, n, parent_spatial, st, ord) ==
    IF n > MaxKids \/ st.p THEN st
    ELSE LET i == ord[n]
         IN  IF i > Len(news) \/ news[i].inner_key \notin KeysOfKids(olds)
             THEN CommonG(news, olds, n + 1, parent_spatial, st, ord)
             ELSE LET old_child == KidWithKey(olds, news[i].inner_key)
                  IN  IF ~MapHas(st.m, old_child.inner_key, old_child.type)
                      THEN Panic(NoInner(st, old_child, old_child))
                      ELSE CommonG(news, olds, n + 1, parent_spatial,
                                DiffG(news[i], st.m[old_child.inner_key].space, old_child,
                                      st, ord),
                                ord)
RemovedG(news, olds, n, st, ord) ==
    IF n > MaxKids \/ st.p THEN st
    ELSE LET i == ord[n]
         IN  IF i > Len(olds) \/ olds[i].inner_key \in KeysOfKids(news)
             THEN RemovedG(news, olds, n + 1, st, ord)
             ELSE RemovedG(news, olds, n + 1, DestroyG(olds[i], st), ord)
AddedG(news, olds, n, parent_spatial, st, ord) ==
    IF n > MaxKids \/ st.p THEN st
    ELSE LET i == ord[n]
         IN  IF i > Len(news) \/ news[i].inner_key \in KeysOfKids(olds)
             THEN AddedG(news, olds, n + 1, parent_spatial, st, ord)
             ELSE LET c == CreateG(news[i], parent_spatial, st)
                  IN  IF c.err THEN Panic(c)
                      ELSE AddedG(news, olds, n + 1, parent_spatial, c, ord)
\* a lens whose diff destroys the wrapped subtree when the mapper gives None
DiffMappedG_NoneDestroys(e, parent_spatial, old, st, ord) ==
    IF ~old.lens THEN Panic(st)
    ELSE IF ~st.some THEN DestroyG(old, st)
    ELSE DiffG(Wrapped(e), parent_spatial, Wrapped(old), st, ord)
\* MappedElement::diff_and_apply
DiffMappedG(e, parent_spatial, old, st, ord) ==
    IF ~old.lens THEN Panic(st)
    ELSE IF ~st.some THEN st
    ELSE DiffG(Wrapped(e), parent_spatial, Wrapped(old), st, ord)
\* diff_and_apply of the boxed GenericElement: a MappedElement or an ElementWrapper
DiffG(e, parent_spatial, old, st, ord) ==
    IF e.lens THEN DiffMappedG(e, parent_spatial, old, st, ord)
    ELSE
    LET same == old.type = e.type /\ ~old.lens
        swapped == CreateG(e, parent_spatial, DestroyG(old, st))
        st1 == IF same THEN st ELSE IF swapped.err THEN Panic(swapped) ELSE swapped
        old_wrapper == IF same THEN old ELSE e
    IN  IF st1.p THEN st1
        ELSE IF ~MapHas(st1.m, e.inner_key, e.type)
        THEN Panic(NoInner(st1, e, old_wrapper))
        ELSE LET st2 == [st1 EXCEPT
                            !.r = ResGet(st1.r, e.type),
                            !.l = Append(st1.l, Ev("update", e.inner_key, e.type, e.decl,
                                                   old_wrapper.decl, <<>>, TRUE))]
                 common == CommonG(e.kids, old_wrapper.kids, 1, parent_spatial, st2, ord)
                 removed == RemovedG(e.kids, old_wrapper.kids, 1, common, ord)
             IN  AddedG(e.kids, old_wrapper.kids, 1, parent_spatial, removed, ord)

(***************************************************************************)
(* "lib": src/src/lib.rs                                                   *)
(***************************************************************************)

\* StardustClient::apply_element_keys: the key is the hash of the path of (index, TypeId)
RECURSIVE StampL(_, _)
\* a key assignment that hashes the declared parameters into the path: the
\* keys then change whenever a tick declares other parameter values
RECURSIVE StampL_ParamsInKey(_, _)
StampL_ParamsInKey(e, path) ==
    [e EXCEPT !.inner_key = path \o <<e.decl[2]>>,
              !.kids = [i \in 1..Len(e.kids) |->
                            StampL_ParamsInKey(e.kids[i],
                                path \o <<e.decl[2], i - 1, TypeId(e.kids[i].type)>>)]]
\* a key assignment that hashes the positions of the path without the types
RECURSIVE StampL_PositionsOnly(_, _)
StampL_PositionsOnly(e, path) ==
    [e EXCEPT !.inner_key = <<0>> \o SelectSeq(path, LAMBDA x : x < 100),
              !.kids = [i \in 1..Len(e.kids) |->
                            StampL_PositionsOnly(e.kids[i],
                                path \o <<i - 1, TypeId(e.kids[i].type)>>)]]
StampL(e, path) ==
    [e EXCEPT !.inner_key = path,
              !.kids = [i \in 1..Len(e.kids) |->
                            StampL(e.kids[i], path \o <<i - 1, TypeId(e.kids[i].type)>>)]]

\* ElementWrapper::destroy_inner_recursive
RECURSIVE DestroyL(_, _)
RECURSIVE DestroyKidsL(_, _, _)
DestroyKidsL(kids, i, st) ==
    IF i > Len(kids) THEN st ELSE DestroyKidsL(kids, i + 1, DestroyL(kids[i], st))
DestroyL(e, st) ==
    LET st1 == DestroyKidsL(e.kids, 1, st)
    IN  [st1 EXCEPT
            !.m = MapRemove(st1.m, e.inner_key),
            !.l = Append(st1.l, Ev("remove", e.inner_key, e.type, <<>>, <<>>, <<>>,
                                   e.inner_key \in DOMAIN st1.m))]

\* ElementWrapper::create_inner_recursive; st.err: it returned Err
RECURSIVE CreateL(_, _, _)
RECURSIVE CreateKidsL(_, _, _, _)
CreateKidsL(kids, i, spatial, st) ==
    IF i > Len(kids) \/ st.err THEN st
    ELSE CreateKidsL(kids, i + 1, spatial, CreateL(kids[i], spatial, st))
CreateL(e, parent, st) ==
    LET ok == CreateOk(e.type, e.decl)
        called == [st EXCEPT
                    !.l = Append(st.l, Ev("create", e.inner_key, e.type, e.decl, <<>>,
                                          parent, ok))]
        inserted == [called EXCEPT
                    !.m = MapInsert(called.m, e.inner_key,
                                    NewHandle(e.type, e.inner_key))]
    IN  IF ~ok THEN [called EXCEPT !.err = TRUE]
        ELSE CreateKidsL(e.kids, 1, inserted.m[e.inner_key].space, inserted)

\* old.params::<E>() gives None: the old element is not of the type of e
NoParams(st, e, old) ==
    [st EXCEPT !.l = Append(@, Ev("params", e.inner_key, e.type, e.decl, old.decl, <<>>, FALSE))]

\* ElementWrapper::update
UpdateL(e, old, st) ==
    IF ~MapHas(st.m, e.inner_key, e.type) THEN Panic(NoInner(st, e, old))
    ELSE IF old.type # e.type THEN Panic(NoParams(st, e, old))
    ELSE [st EXCEPT
            !.l = Append(st.l, Ev("update", e.inner_key, e.type, e.decl, old.decl, <<>>, TRUE))]

\* StardustClient::diff_and_apply
RECURSIVE DiffL(_, _, _, _, _)
RECURSIVE CommonL(_, _, _, _, _)
RECURSIVE RemovedL(_, _, _, _, _)
RECURSIVE AddedL(_, _, _, _, _, _)
CommonL(news, olds, n, st, ord) ==
    IF n > MaxKids \/ st.p THEN st
    ELSE LET i == ord[n]
         IN  IF i > Len(news) \/ news[i].inner_key \notin KeysOfKids(olds)
             THEN CommonL(news, olds, n + 1, st, ord)
             ELSE LET old_child == KidWithKey(olds, news[i].inner_key)
                      updated == UpdateL(news[i], old_child, st)
                  IN  IF updated.p THEN updated
                      ELSE IF ~MapHas(updated.m, old_child.inner_key, old_child.type)
                      THEN Panic(updated)
                      ELSE CommonL(news, olds, n + 1,
                                DiffL(updated.m[old_child.inner_key].space, old_child.kids,
                                      news[i].kids, updated, ord),
                                ord)
RemovedL(news, olds, n, st, ord) ==
    IF n > MaxKids \/ st.p THEN st
    ELSE LET i == ord[n]
         IN  IF i > Len(olds) \/ olds[i].inner_key \in KeysOfKids(news)
             THEN RemovedL(news, olds, n + 1, st, ord)
             ELSE RemovedL(news, olds, n + 1, DestroyL(olds[i], st), ord)
AddedL(news, olds, n, parent_spatial, st, ord) ==
    IF n > MaxKids \/ st.p THEN st
    ELSE LET i == ord[n]
         IN  IF i > Len(news) \/ news[i].inner_key \in KeysOfKids(olds)
             THEN AddedL(news, olds, n + 1, parent_spatial, st, ord)
             ELSE LET c == CreateL(news[i], parent_spatial, st)
                  IN  IF c.err THEN Panic(c)
                      ELSE AddedL(news, olds, n + 1, parent_spatial, c, ord)
DiffL(parent_spatial, old, new, st, ord) ==
    AddedL(new, old, 1, parent_spatial,
           RemovedL(new, old, 1, CommonL(new, old, 1, st, ord), ord), ord)

(***************************************************************************)
(* "tree": src/src/tree.rs                                                 *)
(***************************************************************************)

\* FlatElement::assign_id_recursive; an id that was set explicitly is kept
RECURSIVE StampF(_, _, _)
StampF(e, parent_id, position) ==
    LET id == IF e.hint # 0 THEN <<HashHint(e.hint)>>
              ELSE parent_id \o <<position, TypeId(e.type)>>
    IN  [e EXCEPT !.inner_key = id,
                  !.kids = [i \in 1..Len(e.kids) |-> StampF(e.kids[i], id, i - 1)]]

\* FlatElement::destroy_inner_recursive
RECURSIVE DestroyF(_, _)
RECURSIVE DestroyKidsF(_, _, _)
DestroyKidsF(kids, i, st) ==
    IF i > Len(kids) THEN st ELSE DestroyKidsF(kids, i + 1, DestroyF(kids[i], st))
\* a destroy that removes the node's own key before its children's
DestroyF_SelfFirst(e, st) ==
    DestroyKidsF(e.kids, 1,
                 [st EXCEPT
                    !.m = MapRemove(st.m, e.inner_key),
                    !.l = Append(st.l, Ev("remove", e.inner_key, e.type, <<>>, <<>>, <<>>,
                                          e.inner_key \in DOMAIN st.m))])
DestroyF(e, st) ==
    LET st1 == DestroyKidsF(e.kids, 1, st)
    IN  [st1 EXCEPT
            !.m = MapRemove(st1.m, e.inner_key),
            !.l = Append(st1.l, Ev("remove", e.inner_key, e.type, <<>>, <<>>, <<>>,
                                   e.inner_key \in DOMAIN st1.m))]

\* the create_inner call and the insert of its Ok result (tree.rs 169-183 and 270-282)
CreateInnerF(e, parent_space, st) ==
    LET ok == CreateOk(e.type, e.decl)
    IN  [st EXCEPT
            !.m = IF ok THEN MapInsert(st.m, e.inner_key,
                                       NewHandle(e.type, e.inner_key))
                  ELSE st.m,
            !.r = ResGet(st.r, e.type),
            !.l = Append(st.l, Ev("create", e.inner_key, e.type, e.decl, <<>>,
                                  parent_space, ok))]

\* children created under the node's own parent, never under the node
SpatialF_ParentSpace(e, parent_space, m) == parent_space

\* the spatial children are created under (tree.rs 186-194 and 288-296)
SpatialF(e, parent_space, m) ==
    IF MapHas(m, e.inner_key, e.type) THEN m[e.inner_key].space ELSE parent_space

\* FlatElement::create_inner_recursive
RECURSIVE CreateF(_, _, _)
RECURSIVE CreateKidsF(_, _, _, _)
CreateKidsF(kids, i, spatial, st) ==
    IF i > Len(kids) THEN st
    ELSE CreateKidsF(kids, i + 1, spatial, CreateF(kids[i], spatial, st))
CreateF(e, parent_space, st) ==
    LET st1 == CreateInnerF(e, parent_space, st)
    IN  CreateKidsF(e.kids, 1, SpatialF(e, parent_space, st1.m), st1)

\* FlatElement::frame_recursive; FlatmapElement::frame_recursive frames the
\* wrapped element only when the mapper gives Some
RECURSIVE FrameF(_, _, _, _)
RECURSIVE FrameKidsF(_, _, _, _, _)
FrameKidsF(kids, i, m, some, acc) ==
    IF i > Len(kids) THEN acc
    ELSE FrameKidsF(kids, i + 1, m, some, FrameF(kids[i], m, some, acc))
FrameF(e, m, some, acc) ==
    IF e.lens /\ ~some THEN acc
    ELSE FrameKidsF(e.kids, 1, m, some,
               IF MapHas(m, e.inner_key, e.type) THEN Append(acc, Fr(1, e.inner_key, e.type))
               ELSE acc)

\* FlatElement::diff_and_apply
RECURSIVE DiffF(_, _, _, _)
RECURSIVE DiffKidsF(_, _, _, _, _)
DiffKidsF(kids, olds, i, spatial, st) ==
    IF i > Len(kids) \/ st.p THEN st
    ELSE DiffKidsF(kids, olds, i + 1, spatial,
            IF i <= Len(olds)
            THEN IF kids[i].type = olds[i].type
                 THEN DiffF(kids[i], spatial, olds[i], st)
                 ELSE CreateF(kids[i], spatial, DestroyF(olds[i], st))
            ELSE CreateF(kids[i], spatial, st))
\* the unchecked cast of old to Self reads an element of another struct:
\* undefined behaviour, which either crashes or goes on as if old were what
\* the cast says
MiscastF(e, parent_space, old, st) ==
    IF st.ub = "crash" THEN Panic(st)
    ELSE DiffF(Wrapped(e), parent_space, Wrapped(old), st)
\* FlatmapElement::diff_and_apply: the mapper is never asked
DiffFlatmapF(e, parent_space, old, st) ==
    IF e.type # old.type THEN CreateF(e, parent_space, DestroyF(old, st))
    ELSE IF ~old.lens THEN MiscastF(e, parent_space, old, st)
    ELSE DiffF(Wrapped(e), parent_space, Wrapped(old), st)
\* diff_and_apply of the boxed ElementDiffer: a FlatmapElement or a FlatElement
DiffF(e, parent_space, old, st) ==
    IF e.lens THEN DiffFlatmapF(e, parent_space, old, st)
    ELSE IF e.type # old.type THEN CreateF(e, parent_space, DestroyF(old, st))
    ELSE IF old.lens THEN MiscastF(e, parent_space, old, st)
    ELSE LET st1 ==
                IF MapHas(st.m, e.inner_key, e.type)
                THEN [st EXCEPT
                        !.r = ResGet(st.r, e.type),
                        !.l = Append(st.l, Ev("update", e.inner_key, e.type, e.decl,
                                              old.decl, <<>>, TRUE))]
                ELSE IF MapHas(st.m, old.inner_key, e.type)
                THEN CreateInnerF(e, parent_space, st)
                ELSE st
             diffed == DiffKidsF(e.kids, old.kids, 1, SpatialF(e, parent_space, st1.m), st1)
         IN  IF diffed.p THEN diffed ELSE DestroyKidsF(old.kids, Len(e.kids) + 1, diffed)

(***************************************************************************)
(* The trees that reify returns                                            *)
(***************************************************************************)

\* the hints of a list of children: none identified, or all identified with
\* pairwise different hints
HintSeqs ==
    UNION {[1..n -> {0}] : n \in 0..MaxKids}
    \cup UNION {{hs \in [1..n -> 1..NumHints] : \A i, j \in 1..n : i # j => hs[i] # hs[j]}
                : n \in 1..MaxKids}

\* versions of the declared parameters; a declaration is <<hint, version>>
Versions == {0, 1}

\* "element": State::Output is one static type,
\*   Spatial.child(Vec<Text>).child(Option<Model>).child(DynamicElement)
ItemW(h, v) ==
    IF h = 0 THEN El("Text", <<0, v>>, 0, Unit)
    ELSE IdentifyW(El("Text", <<h, v>>, 0, Unit), h)
ItemsW(hs, v) == [i \in 1..Len(hs) |-> ItemW(hs[i], v)]
OptChildW(v) == El("Model", <<0, v>>, 0, Pair(Unit, El("Text", <<0, v>>, 0, Unit)))
OptsW(v) == {<<>>, <<OptChildW(v)>>}
DynsW(v) ==
    {El("Text", <<0, v>>, 0, Unit),
     El("Model", <<0, v>>, 0, Pair(Unit, El("Text", <<0, v>>, 0, Unit))),
     El("Spatial", <<0, v>>, 0, Pair(Unit, El("Text", <<0, v>>, 0, Unit)))}
RootW(items, opt, dyn, v) ==
    El("Spatial", <<0, v>>, 0,
       Pair(Pair(Pair(Unit, VecOf(TyOf(ItemW(0, 0)), items)),
                 OptOf(TyOf(OptChildW(0)), opt)),
            Dyn(dyn)))
OutputsW ==
    {RootW(ItemsW(hs, v), <<>>, El("Text", <<0, v>>, 0, Unit), v) :
        hs \in HintSeqs, v \in Versions}
    \cup UNION {{RootW(ItemsW(hs, v), opt, dyn, v) :
                    hs \in {x \in HintSeqs : Len(x) <= 1}, opt \in OptsW(v), dyn \in DynsW(v)}
                : v \in Versions}

\* "element": State::Output is Spatial.child(Model.child(Vec<Text>)); the
\* create of the Model fails or not with its version
ModelOutputsW ==
    {El("Spatial", <<0, v>>, 0,
        Pair(Unit, El("Model", <<0, vm>>, 0,
                      Pair(Unit, VecOf(TyOf(ItemW(0, 0)), ItemsW(hs, v)))))) :
        v \in Versions, vm \in Versions, hs \in {x \in HintSeqs : \A i \in DOMAIN x : x[i] = 0}}

\* "scenegraph", "lib", "tree": a Spatial root over a Vec of children
Leaf(type, h, v) == Node(type, h, <<h, v>>, <<>>)
Letters(v) ==
    {Leaf("Text", 0, v), Leaf("Text", 1, v), Leaf("Model", 0, v), Leaf("Model", 1, v),
     Node("Spatial", 0, <<0, v>>, <<>>),
     Node("Spatial", 0, <<0, v>>, <<Leaf("Text", 0, v)>>),
     Node("Spatial", 0, <<0, v>>, <<Leaf("Text", 1, v)>>)}
ListKids(v) == {[i \in 1..Len(hs) |-> Leaf("Text", hs[i], v)] : hs \in HintSeqs}
MixedKids(v) ==
    {<<a>> : a \in Letters(v)}
    \cup {ab \in Letters(v) \X Letters(v) : ab[1].hint = 0 \/ ab[2].hint # ab[1].hint}
Roots ==
    UNION {{Node("Spatial", 0, <<0, v>>, kids) : kids \in ListKids(v) \cup MixedKids(v)}
           : v \in Versions}

\* lib.rs has no identify
RECURSIVE Unhinted(_)
Unhinted(e) == e.hint = 0 /\ \A i \in 1..Len(e.kids) : Unhinted(e.kids[i])
RootsL == {t \in Roots : Unhinted(t)}

\* tree.rs: the trees without an explicit id, and the lists of one or two
\* Text children with the explicit ids of two hints
KeyedF(v) ==
    {<<Leaf("Text", 1, v)>>, <<Leaf("Text", 2, v)>>,
     <<Leaf("Text", 1, v), Leaf("Text", 2, v)>>,
     <<Leaf("Text", 2, v), Leaf("Text", 1, v)>>}

\* scenegraph.rs, tree.rs: a root whose only child is a lens over a Text or
\* over a Spatial with a Text child
LensKids(v) ==
    {<<Lens(Leaf("Text", 0, v))>>,
     <<Lens(Node("Spatial", 0, <<0, v>>, <<Leaf("Text", 0, v)>>))>>}
LensRoots ==
    UNION {{Node("Spatial", 0, <<0, v>>, kids) : kids \in LensKids(v)} : v \in Versions}
RECURSIVE HasLens(_)
HasLens(e) == e.lens \/ \E i \in 1..Len(e.kids) : HasLens(e.kids[i])
\* what the projectors of a tree's lenses can give in one pass
Projections(t) == IF t # NoTree /\ HasLens(t) THEN BOOLEAN ELSE {TRUE}

\* scenegraph.rs: a root with a plain Spatial and an identified Spatial, the
\* plain one with or without a Text child identified with the same hint
SharedHintKids(v) ==
    {<<Node("Spatial", 0, <<0, v>>, kids),
       Node("Spatial", 1, <<1, v>>, <<Leaf("Text", 0, v)>>)>> :
        kids \in {<<>>, <<Leaf("Text", 1, v)>>}}
SharedHintRoots ==
    UNION {{Node("Spatial", 0, <<0, v>>, kids) : kids \in SharedHintKids(v)} : v \in Versions}

\* scenegraph.rs: a root over one FileWatcher, identified or not, its
\* version being the watched path
WatcherRoots ==
    {Node("Spatial", 0, <<0, v>>, <<Leaf("FileWatcher", h, v)>>) : h \in {0, 1}, v \in Versions}

RootsG == Roots \cup LensRoots \cup SharedHintRoots \cup WatcherRoots

\* scenegraph.rs: a root whose only child is a lens over a Spatial without
\* children
BareLensRoots ==
    {Node("Spatial", 0, <<0, v>>, <<Lens(Leaf("Spatial", 0, v))>>) : v \in Versions}

\* the trees of a client whose state is seen through one lens: the wrapped
\* subtree changes its type, gains a child or loses it
LensesG == LensRoots \cup BareLensRoots
RootsF ==
    {t \in Roots : Unhinted(t)}
    \cup UNION {{Node("Spatial", 0, <<0, v>>, kids) : kids \in KeyedF(v)} : v \in Versions}
    \cup LensRoots

(***************************************************************************)
(* The passes                                                              *)
(***************************************************************************)

\* what a pass threads through the recursion: the map, the registry, the
\* calls made so far, whether it panicked, whether the last create returned Err
St0(m, r) ==
    [m |-> m, r |-> r, l |-> <<>>, p |-> FALSE, err |-> FALSE, some |-> TRUE, ub |-> "proceed"]

\* a pass in which the projectors of the lenses give Some (some) or None, and
\* in which undefined behaviour has the outcome ub
StLens(m, r, some, ub) == [St0(m, r) EXCEPT !.some = some, !.ub = ub]
UBs == {"proceed", "crash"}
Proj(some) == IF some THEN "Some" ELSE "None"


\* a pass that drops the registry's entries when it has destroyed an instance
Leave_ForgetsRegistry(t, st, fr) ==
    /\ new_elem' = t
    /\ frames' = fr
    /\ inner_map' = st.m
    /\ pre_map' = inner_map
    /\ resources' = IF \E i \in DOMAIN st.l : st.l[i].op = "remove" THEN {} ELSE st.r
    /\ log' = st.l
    /\ watch_loops' = RunWatch(watch_loops, st.l, 1)
    /\ pc' = IF st.p THEN "panicked" ELSE "diffed"
    /\ projected' = Proj(st.some)
    /\ UNCHANGED <<impl, old_element>>

\* the state a pass leaves behind
Leave(t, st, fr) ==
    /\ new_elem' = t
    /\ frames' = fr
    /\ inner_map' = st.m
    /\ pre_map' = inner_map
    /\ resources' = st.r
    /\ log' = st.l
    /\ watch_loops' = RunWatch(watch_loops, st.l, 1)
    /\ pc' = IF st.p THEN "panicked" ELSE "diffed"
    /\ projected' = Proj(st.some)
    /\ UNCHANGED <<impl, old_element>>

\* the outcomes of undefined behaviour a diff of the old tree against t can have
Outcomes(t) == IF HasLens(t) # HasLens(old_element) THEN UBs ELSE {"proceed"}

\* client.rs: root_key of State::Output
RootKeyW(t) == generate_positional_inner_key(TyOf(t), <<0>>, 0)

\* one step of the closure of sync_event_loop: what is called, and for which
\* Frame event of the batch (0: for none)
Step(op, f) == [op |-> op, f |-> f]

\* client.rs: for frame in &frames { state.on_frame(frame); old_elem.frame_recursive(..) }
RECURSIVE FrameSteps(_, _)
FrameSteps(f, n) ==
    IF f > n THEN <<>>
    ELSE <<Step("on_frame", f), Step("frame_recursive", f)>> \o FrameSteps(f + 1, n)

\* a closure that calls on_frame whether or not there is an old tree
ClosureSteps_AlwaysOnFrame(n, has_old) ==
    (IF has_old THEN FrameSteps(1, n) ELSE [f \in 1..n |-> Step("on_frame", f)])
    \o <<Step("reify", 0),
         Step(IF has_old THEN "diff_same_type" ELSE "create_inner_recursive", 0)>>

\* client.rs: the steps of the closure for a batch of n Frame events, from
\* `if let Some(old_elem) = &old_element` on
ClosureSteps(n, has_old) ==
    (IF has_old THEN FrameSteps(1, n) ELSE <<>>)
    \o <<Step("reify", 0),
         Step(IF has_old THEN "diff_same_type" ELSE "create_inner_recursive", 0)>>

\* client.rs: the root events of a batch without a Frame event
QuietEvents ==
    {<<"Ping">>, <<"SaveState">>, <<"Ping", "SaveState">>, <<"SaveState", "Ping">>}

\* client.rs: pong.send(Ok(())) for a Ping, response.wrap(..) for a SaveState
Respond(evs) ==
    [i \in DOMAIN evs |-> Step(IF evs[i] = "Ping" THEN "pong" ELSE "save_state", 0)]

\* client.rs, the closure of sync_event_loop for a batch with at least one
\* frame, up to the diff (or the first creation), reify giving a tree of outputs
PassElement(outputs) ==
    /\ impl = "element"
    /\ pc = "idle"
    /\ \E t \in outputs :
        LET root_key == RootKeyW(t)
        IN  \E new_elem_keyed \in {StampW(t, root_key)},
               st \in {IF old_element = NoTree
                       THEN CreateW(t, root_key, RootSpace, St0(inner_map, resources))
                       ELSE DiffW(t, root_key, old_element, RootSpace,
                                  St0(inner_map, resources))},
               n \in 1..MaxFrames :
                \E fr \in {IF old_element = NoTree THEN <<>>
                           ELSE FramePassW(old_element, 1, n, inner_map, <<>>)} :
                    /\ Leave(new_elem_keyed, st, fr)
                    /\ batch' = n
                    /\ steps' = ClosureSteps(n, old_element # NoTree)
    /\ UNCHANGED <<bumps, aside>>

\* client.rs, the closure of sync_event_loop for root events without a Frame
\* event: they are answered and the closure returns
QuietBatch ==
    /\ impl = "element"
    /\ pc = "idle"
    /\ \E evs \in QuietEvents : steps' = Respond(evs)
    /\ UNCHANGED <<impl, pc, old_element, new_elem, inner_map, pre_map, resources, log, frames,
                   projected, batch, watch_loops, bumps, aside>>

\* the pass of a client whose State::Output is Spatial.child(Vec<Text>)
\* .child(Option<Model>).child(DynamicElement)
TickElement == PassElement(OutputsW)

\* the pass of a client whose State::Output is Spatial.child(Model.child(Vec<Text>))
TickModelW == PassElement(ModelOutputsW)

\* the pass of the scenegraph.rs client on a tree reified out of roots: keys,
\* then the root's diff_and_apply
PassScenegraph(roots) ==
    /\ impl = "scenegraph"
    /\ pc = "idle"
    /\ \E t \in roots :
        \E new \in {StampG(t, <<>>, 0)} :
            \E st \in {DiffG(new, RootSpace, old_element,
                              StLens(inner_map, resources, some, "proceed"), ord) :
                            ord \in OrdersOf(old_element, t), some \in Projections(t)} :
                Leave(new, st, <<>>)
    /\ batch' = 1
    /\ UNCHANGED <<bumps, steps, aside>>

\* the pass of the scenegraph.rs client
TickScenegraph == PassScenegraph(RootsG)

\* the pass of a scenegraph.rs client whose tree holds one lens
TickLenses == PassScenegraph(LensesG)

\* lib.rs StardustClient::update, up to the diff
TickLib ==
    /\ impl = "lib"
    /\ pc = "idle"
    /\ \E t \in RootsL :
        \E new_vdom \in {StampL(t, <<0, TypeId(t.type)>>)} :
            \E st \in {DiffL(RootSpace, <<old_element>>, <<new_vdom>>,
                              St0(inner_map, resources), ord) :
                            ord \in OrdersOf(old_element, t)} :
                Leave(new_vdom, st, <<>>)
    /\ batch' = 1
    /\ UNCHANGED <<bumps, steps, aside>>

\* tree.rs: no arena (self.old is None; the reconcilers without arenas)
NoBump == 0

\* Bump::new(), Bump::default(): an arena that is none of the arenas in use
BumpNew(used) == CHOOSE a \in 1..(Cardinality(used) + 1) : a \notin used

\* Trees of the reconcilers that hold no arena
NoBumps == [current |-> NoBump, old |-> NoBump]

\* a diff_and_apply that resets the arena of self.current
old_bump_OfCurrent(b) == b.current

\* tree.rs diff_and_apply: self.old.take().map(|o| o.into_heads().bump).unwrap_or_default(),
\* the arena that is reset and that the new blueprint is flattened into
old_bump(b) == IF b.old = NoBump THEN BumpNew({b.current}) ELSE b.old

\* tree.rs diff_and_apply: mem::replace(&mut self.current, new_tree) and
\* self.old.replace(old_tree)
SwapTrees(b) == [current |-> old_bump(b), old |-> b.current]

\* tree.rs Trees::diff_and_apply
TickTree ==
    /\ impl = "tree"
    /\ pc = "idle"
    /\ bumps' = SwapTrees(bumps)
    /\ UNCHANGED <<steps, aside>>
    /\ \E t \in RootsF :
        \E new_tree \in {StampF(t, <<0>>, 0)} :
            \E st \in {DiffF(new_tree, RootSpace, old_element,
                              StLens(inner_map, resources, some, ub)) :
                            some \in Projections(t), ub \in Outcomes(t)} :
                Leave(new_tree, st, <<>>)
    /\ batch' = 1

\* scenegraph.rs: one frame event, frame_recursive on the current tree
FrameScenegraph ==
    /\ impl = "scenegraph"
    /\ pc = "idle"
    /\ \E some \in Projections(old_element) :
        /\ frames' = FrameG(old_element, inner_map, some, <<>>)
        /\ projected' = Proj(some)
    /\ UNCHANGED <<impl, pc, old_element, new_elem, inner_map, pre_map, resources, log, batch, watch_loops, bumps, steps, aside>>

\* tree.rs Trees::frame
FrameTree ==
    /\ impl = "tree"
    /\ pc = "idle"
    /\ \E some \in Projections(old_element) :
        /\ frames' = FrameF(old_element, inner_map, some, <<>>)
        /\ projected' = Proj(some)
    /\ UNCHANGED <<impl, pc, old_element, new_elem, inner_map, pre_map, resources, log, batch, watch_loops, bumps, steps, aside>>

\* client.rs old_element.replace(new_elem); lib.rs self.vdom_root = new_vdom;
\* tree.rs: the tree diffed against is dropped
Replace ==
    /\ pc = "diffed"
    /\ old_element' = new_elem
    /\ new_elem' = NoTree
    /\ inner_map' = Aged(inner_map)
    /\ pre_map' = EmptyMap
    /\ log' = <<>>
    /\ frames' = <<>>
    /\ projected' = "-"
    /\ batch' = 0
    /\ pc' = "idle"
    /\ steps' = <<>>
    /\ UNCHANGED <<impl, resources, watch_loops, bumps, aside>>

\* util/migrate.rs: no call has returned yet
NoRet == [ok |-> FALSE, from |-> 0, ver |-> 0]

\* no run of deserialize_with_migrate
NoMigration == [chain |-> 0, parses |-> {}, stack |-> <<>>, ret |-> NoRet]

\* no handle of a Model is looked at
NoModel == [src |-> "-", resolves |-> {}, old_decl |-> {}, decl |-> {}, model_parts |-> {},
            updated |-> FALSE]

\* no FileWatcher is looked at
NoWatcher == [path |-> 0, modified |-> FALSE, task |-> "-", stale |-> FALSE, upc |-> "-",
              calls |-> 0, unseen |-> FALSE, raced |-> FALSE]

\* state() is not looked at
NoStartup == [dev_env |-> FALSE, dev_file |-> "-", reply |-> "-", file |-> "-", pc |-> "-",
              chosen |-> "-", value |-> NoRet, updated |-> FALSE, wrote |-> FALSE]

\* the startup of the client is over, no leaf is looked at on its own
NoAside ==
    /\ migration = NoMigration
    /\ model_inner = NoModel
    /\ watcher = NoWatcher
    /\ startup = NoStartup

\* client.rs run: the locals of the client when the event loop starts
NotStarted ==
    /\ impl = "element"
    /\ pc = "idle"
    /\ old_element = NoTree
    /\ new_elem = NoTree
    /\ inner_map = EmptyMap
    /\ pre_map = EmptyMap
    /\ resources = {}
    /\ log = <<>>
    /\ frames = <<>>
    /\ projected = "-"
    /\ batch = 0
    /\ watch_loops = NoWatch
    /\ bumps = NoBumps
    /\ steps = <<>>

\* the client before its first batch of frames
InitElement == NotStarted /\ NoAside

\* a constructed client: the first tree is reified, keyed and created
Constructed(i, t, st) ==
    /\ ~st.err
    /\ impl = i
    /\ pc = "diffed"
    /\ old_element = NoTree
    /\ new_elem = t
    /\ inner_map = st.m
    /\ pre_map = EmptyMap
    /\ resources = st.r
    /\ log = st.l
    /\ frames = <<>>
    /\ projected = "-"
    /\ batch = 0
    /\ watch_loops = RunWatch(NoWatch, st.l, 1)

\* the scenegraph.rs client after its construction
InitScenegraph ==
    \E t \in RootsG :
        LET root == StampG(t, <<>>, 0)
        IN  /\ Constructed("scenegraph", root, CreateG(root, RootSpace, St0(EmptyMap, {})))
            /\ bumps = NoBumps
            /\ steps = <<>>
            /\ NoAside

\* lib.rs StardustClient::new
InitLib ==
    \E t \in RootsL :
        LET vdom_root == StampL(t, <<0, TypeId(t.type)>>)
        IN  /\ Constructed("lib", vdom_root, CreateL(vdom_root, RootSpace, St0(EmptyMap, {})))
            /\ bumps = NoBumps
            /\ steps = <<>>
            /\ NoAside

\* tree.rs Trees::new
InitTree ==
    \E t \in RootsF :
        LET current == StampF(t, <<0>>, 0)
        IN  /\ Constructed("tree", current, CreateF(current, RootSpace, St0(EmptyMap, {})))
            /\ bumps = [current |-> BumpNew({}), old |-> NoBump]
            /\ steps = <<>>
            /\ NoAside

Init == InitElement \/ InitScenegraph \/ InitLib \/ InitTree

Next ==
    \/ TickElement
    \/ TickScenegraph
    \/ TickLib
    \/ TickTree
    \/ FrameScenegraph
    \/ FrameTree
    \/ Replace

Spec == Init /\ [][Next]_vars

\* the client.rs client of a State whose Output is a Model over a list
NextModelW ==
    \/ TickModelW
    \/ QuietBatch
    \/ Replace

SpecModelW == InitElement /\ [][NextModelW]_vars

\* the lib.rs client
NextLib ==
    \/ TickLib
    \/ Replace

SpecLib == InitLib /\ [][NextLib]_vars

\* the scenegraph.rs client of a state that is seen through one lens
InitLenses ==
    \E t \in LensesG :
        LET root == StampG(t, <<>>, 0)
        IN  /\ Constructed("scenegraph", root, CreateG(root, RootSpace, St0(EmptyMap, {})))
            /\ bumps = NoBumps
            /\ steps = <<>>
            /\ NoAside

NextLenses ==
    \/ TickLenses
    \/ FrameScenegraph
    \/ Replace

SpecLenses == InitLenses /\ [][NextLenses]_vars

(***************************************************************************)
(* util/migrate.rs: the chain of versions of a persisted state             *)
(*                                                                         *)
(* The versions of a chain are numbered 1..chain: chain is the current     *)
(* type (Self of the outermost call), Old of version v is v - 1, and the   *)
(* earliest version, 1, has Old = Self.  A file is the set of versions it  *)
(* deserializes as.                                                        *)
(***************************************************************************)

\* longest chain of versions
MaxChain == 5

\* type Old of version v
Old(v) == IF v = 1 THEN v ELSE v - 1

\* Migrate::chain_end: TypeId::of::<Self>() == TypeId::of::<Self::Old>()
chain_end(v) == v = Old(v)

\* deserializer.deserialize::<Self>() for Self = version v: the value as it
\* was written (from) and the type it has now (ver), or the error of v
Deserialize(file, v) ==
    IF v \in file THEN [ok |-> TRUE, from |-> v, ver |-> v]
                  ELSE [ok |-> FALSE, from |-> v, ver |-> v]

\* an Into that gives back its argument
Into_Unconverted(old, v) == old

\* old.into(): Into<Self> of Self::Old, for Self = version v
Into(old, v) == [old EXCEPT !.ver = v]

\* deserialize_with_migrate of the version on top of the stack, up to its
\* return or its call of Self::Old::deserialize_with_migrate
CallMigrate ==
    /\ migration.stack # <<>>
    /\ migration.ret = NoRet
    /\ LET v == Head(migration.stack)
           r == Deserialize(migration.parses, v)
       IN  migration' =
               IF r.ok \/ chain_end(v)
               THEN [migration EXCEPT !.stack = Tail(@), !.ret = r]
               ELSE [migration EXCEPT !.stack = <<Old(v)>> \o @]
    /\ UNCHANGED <<engine, model_inner, watcher, startup>>

\* deserialize_with_migrate from the return of Self::Old::deserialize_with_migrate:
\* `?` hands an error on, a value is converted
ReturnMigrate ==
    /\ migration.stack # <<>>
    /\ migration.ret # NoRet
    /\ LET v == Head(migration.stack)
           old == migration.ret
       IN  migration' = [migration EXCEPT !.stack = Tail(@),
                                          !.ret = IF old.ok THEN Into(old, v) ELSE old]
    /\ UNCHANGED <<engine, model_inner, watcher, startup>>

\* State::deserialize_with_migrate is called on a file
InitMigrate ==
    /\ NotStarted
    /\ \E n \in 1..MaxChain : \E file \in SUBSET (1..n) :
           migration = [chain |-> n, parses |-> file, stack |-> <<n>>, ret |-> NoRet]
    /\ model_inner = NoModel
    /\ watcher = NoWatcher
    /\ startup = NoStartup

\* the outermost call has returned
Migrated == migration.stack = <<>> /\ migration.ret # NoRet

NextMigrate == CallMigrate \/ ReturnMigrate

\* the call runs on: a function that can take a step takes it
SpecMigrate == InitMigrate /\ [][NextMigrate]_vars /\ WF_vars(NextMigrate)

(***************************************************************************)
(* elements/model.rs and elements.rs: the parts of a Model                 *)
(*                                                                         *)
(* A ModelPart is <<path, overrides>>: Hash is the hash of the path, Eq    *)
(* compares all fields.  A declaration is a set of parts with different    *)
(* paths.  The handle's model_parts is the set of the paths it has a part  *)
(* for.  resolves are the paths for which model.part(path) and             *)
(* apply_material_parameters give Ok.                                      *)
(***************************************************************************)

\* number of part paths
NumParts == 2

ModelParts == (1..NumParts) \X {0, 1}
ModelDecls == {d \in SUBSET ModelParts : \A p, q \in d : p[1] = q[1] => p = q}
PathsOf(decl) == {p[1] : p \in decl}

\* ModelInner::create / Model::create_inner: filter_map over the declared parts
CreateParts(decl, resolves) == {p[1] : p \in {q \in decl : q[1] \in resolves}}

\* Model::update, "just added": the parts of self.model_parts.difference(old)
\* that resolve are inserted
JustAdded(table, new, old, resolves) ==
    table \cup {p[1] : p \in {q \in new \ old : q[1] \in resolves}}

\* Model::update, "just removed": the paths of old.model_parts.difference(self)
JustRemoved(table, new, old) == table \ {p[1] : p \in old \ new}

\* elements/model.rs Model::update, "still here": `let Some(model_part) =
\* inner.model_parts.get(&part_info.path) else { return; }` for a part of
\* self.model_parts.union(old) that the handle has no part for
StillHereReturns(table, new, old) == \E p \in new \cup old : p[1] \notin table

\* the handle after Model::update with the declaration new has returned
ModelUpdated(new, table) ==
    [model_inner EXCEPT !.old_decl = model_inner.decl, !.decl = new,
                        !.model_parts = table, !.updated = TRUE]

\* elements/model.rs Model::update
UpdateModel ==
    /\ model_inner.src = "elements/model.rs"
    \* recreated: the resource changed and ModelInner::create gave Ok
    /\ \E new \in ModelDecls, recreated \in BOOLEAN :
        LET old == model_inner.decl
            inner == IF recreated THEN CreateParts(new, model_inner.resolves)
                     ELSE model_inner.model_parts
            added == JustAdded(inner, new, old, model_inner.resolves)
        IN  model_inner' =
                ModelUpdated(new,
                             IF StillHereReturns(added, new, old) THEN added
                             ELSE JustRemoved(added, new, old))
    /\ UNCHANGED <<engine, migration, watcher, startup>>

\* elements.rs Model::update
UpdateModelL ==
    /\ model_inner.src = "elements.rs"
    \* recreated: the resource changed and ModelInner::create gave Ok
    /\ \E new \in ModelDecls, recreated \in BOOLEAN :
        LET old == model_inner.decl
            inner == IF recreated THEN CreateParts(new, model_inner.resolves)
                     ELSE model_inner.model_parts
            added == JustAdded(inner, new, old, model_inner.resolves)
        IN  model_inner' = ModelUpdated(new, JustRemoved(added, new, old))
    /\ UNCHANGED <<engine, migration, watcher, startup>>

\* a Model that was created: ModelInner::create / create_inner gave Ok
InitModelParts ==
    /\ NotStarted
    /\ migration = NoMigration
    /\ watcher = NoWatcher
    /\ startup = NoStartup
    /\ \E src \in {"elements/model.rs", "elements.rs"}, decl \in ModelDecls,
          resolves \in SUBSET (1..NumParts) :
           model_inner = [src |-> src, resolves |-> resolves, old_decl |-> {}, decl |-> decl,
                          model_parts |-> CreateParts(decl, resolves), updated |-> FALSE]

NextModelParts == UpdateModel \/ UpdateModelL

SpecModelParts == InitModelParts /\ [][NextModelParts]_vars

(***************************************************************************)
(* elements/file_watcher.rs: the flag between the watch task and update    *)
(*                                                                         *)
(* The watch task and update run on different threads and share the        *)
(* AtomicBool modified; every load and store of it is a step of its own.   *)
(* watcher.task is the position of the task update holds the handle of:    *)
(* "await" at event_stream.next(), "event" with a MODIFY event in hand,    *)
(* "ended" after an error or an abort.  An aborted task stops at its next  *)
(* await: one that has an event in hand still stores (watcher.stale).      *)
(* watcher.upc is the position of update.  Two fields are history:         *)
(* unseen says that a modification of the declared path was recorded and   *)
(* on_change has not been called since, raced that a store fell between    *)
(* the load and the reset of the running update.                           *)
(***************************************************************************)

WatchPaths == {0, 1}

\* update: `old_decl.file_path != self.file_path`
PathChanged_Always(old_path, new_path) == TRUE
PathChanged(old_path, new_path) == old_path # new_path

\* watch_loop: event_stream.next() gives a MODIFY event
WatchRecv ==
    /\ watcher.task = "await"
    /\ watcher' = [watcher EXCEPT !.task = "event"]
    /\ UNCHANGED <<engine, migration, model_inner, startup>>

\* watch_loop: modified.store(true)
WatchStore ==
    /\ watcher.task = "event"
    /\ watcher' = [watcher EXCEPT !.task = "await", !.modified = TRUE, !.unseen = TRUE,
                                  !.raced = @ \/ watcher.upc = "reset"]
    /\ UNCHANGED <<engine, migration, model_inner, startup>>

\* watch_loop: Inotify::init, the watch or the stream gives an error
WatchEnd ==
    /\ watcher.task = "await"
    /\ watcher' = [watcher EXCEPT !.task = "ended"]
    /\ UNCHANGED <<engine, migration, model_inner, startup>>

\* an aborted watch_loop with an event in hand: modified.store(true) for the
\* path it watched; others like it may be left
StaleStore ==
    /\ watcher.stale
    /\ \E more \in BOOLEAN :
           watcher' = [watcher EXCEPT !.modified = TRUE, !.stale = more]
    /\ UNCHANGED <<engine, migration, model_inner, startup>>

\* update is called with a declaration of the path p: the comparison, and
\* watch_loop.abort() when it says that the path changed
UpdateBegin ==
    /\ watcher.upc = "idle"
    /\ \E p \in WatchPaths :
           watcher' =
               IF PathChanged(watcher.path, p)
               THEN [watcher EXCEPT !.path = p, !.calls = 0, !.raced = FALSE,
                                    !.unseen = @ /\ p = watcher.path,
                                    !.stale = @ \/ watcher.task = "event",
                                    !.task = "ended", !.upc = "clear"]
               ELSE [watcher EXCEPT !.path = p, !.calls = 0, !.raced = FALSE,
                                    !.unseen = @ /\ p = watcher.path, !.upc = "load"]
    /\ UNCHANGED <<engine, migration, model_inner, startup>>

\* update, the path changed: modified.store(false)
UpdateClear ==
    /\ watcher.upc = "clear"
    /\ watcher' = [watcher EXCEPT !.modified = FALSE, !.upc = "spawn"]
    /\ UNCHANGED <<engine, migration, model_inner, startup>>

\* update, the path changed: tokio::spawn(watch_loop) for the new path
UpdateSpawn ==
    /\ watcher.upc = "spawn"
    /\ watcher' = [watcher EXCEPT !.task = "await", !.upc = "load"]
    /\ UNCHANGED <<engine, migration, model_inner, startup>>

\* update: `if inner.modified.load(Relaxed)`
UpdateLoad ==
    /\ watcher.upc = "load"
    /\ watcher' = [watcher EXCEPT !.upc = IF watcher.modified THEN "reset" ELSE "idle"]
    /\ UNCHANGED <<engine, migration, model_inner, startup>>

\* update: modified.store(false) after a load of true
UpdateReset ==
    /\ watcher.upc = "reset"
    /\ watcher' = [watcher EXCEPT !.modified = FALSE, !.upc = "call"]
    /\ UNCHANGED <<engine, migration, model_inner, startup>>

\* update: (self.on_change.0)(state), and update returns
UpdateOnChange ==
    /\ watcher.upc = "call"
    /\ watcher' = [watcher EXCEPT !.calls = @ + 1, !.unseen = FALSE, !.upc = "idle"]
    /\ UNCHANGED <<engine, migration, model_inner, startup>>

\* the node after create_inner
InitWatch ==
    /\ NotStarted
    /\ migration = NoMigration
    /\ model_inner = NoModel
    /\ startup = NoStartup
    /\ \E p \in WatchPaths :
           watcher = [path |-> p, modified |-> FALSE, task |-> "await", stale |-> FALSE,
                      upc |-> "idle", calls |-> 0, unseen |-> FALSE, raced |-> FALSE]

\* the steps of update
UpdateWatch ==
    UpdateBegin \/ UpdateClear \/ UpdateSpawn \/ UpdateLoad \/ UpdateReset \/ UpdateOnChange

NextWatch == WatchRecv \/ WatchStore \/ WatchEnd \/ StaleStore \/ UpdateWatch

\* the node stays in the tree: update is called in every pass and runs to its
\* end; nothing is assumed of the watch task
SpecWatch == InitWatch /\ [][NextWatch]_vars /\ WF_vars(UpdateWatch)

(***************************************************************************)
(* client.rs: the state the client starts with                             *)
(*                                                                         *)
(* startup.dev_env says that std::env::var("ASTEROIDS_DEV") gives Ok;      *)
(* dev_file is "missing" (read_to_string fails), "bad" (ron::from_str      *)
(* fails) or "ok"; reply is what get_state gives: "err" (the call failed), *)
(* "none" (no saved data), "bad" (data that is not UTF-8 or does not       *)
(* parse) or "ok"; file is "missing" or "read" for the initial-state file, *)
(* whose text parses as the versions of migration.parses.  A state is the  *)
(* record Deserialize gives; from is 0 for State::default().               *)
(***************************************************************************)

DevFiles == {"missing", "bad", "ok"}
Replies == {"err", "none", "bad", "ok"}

\* State::default()
Default(v) == [ok |-> TRUE, from |-> 0, ver |-> v]

\* load_dev_state gives Some
load_dev_state_IgnoresEnv(su) == su.dev_file = "ok"
load_dev_state(su) == su.dev_env /\ su.dev_file = "ok"

\* state(): load_dev_state
LoadDevState ==
    /\ startup.pc = "state"
    /\ startup' = IF load_dev_state(startup)
                  THEN [startup EXCEPT !.pc = "done", !.chosen = "dev",
                                       !.value = Deserialize({migration.chain}, migration.chain)]
                  ELSE [startup EXCEPT !.pc = "get_state"]
    /\ UNCHANGED <<engine, migration, model_inner, watcher>>

\* state(): get_state, `.ok()?.ok()?`, and the parse of the saved data
GetState ==
    /\ startup.pc = "get_state"
    /\ startup' =
           CASE startup.reply = "err" -> [startup EXCEPT !.pc = "done", !.chosen = "none"]
             [] startup.reply = "ok" ->
                   [startup EXCEPT !.pc = "done", !.chosen = "server",
                                   !.value = Deserialize({migration.chain}, migration.chain)]
             [] OTHER -> [startup EXCEPT !.pc = "initial_state"]
    /\ UNCHANGED <<engine, migration, model_inner, watcher>>

\* initial_state: read_to_string of the initial-state file, and the call of
\* deserialize_with_migrate when it was read
ReadInitialState ==
    /\ startup.pc = "initial_state"
    /\ IF startup.file = "read"
       THEN /\ migration' = [migration EXCEPT !.stack = <<migration.chain>>]
            /\ startup' = [startup EXCEPT !.pc = "migrate"]
       ELSE /\ startup' = [startup EXCEPT !.pc = "update", !.value = Default(migration.chain)]
            /\ UNCHANGED migration
    /\ UNCHANGED <<engine, model_inner, watcher>>

\* initial_state: `.unwrap_or_else(|_| State::default())`
UnwrapInitialState ==
    /\ startup.pc = "migrate"
    /\ Migrated
    /\ startup' = [startup EXCEPT !.pc = "update",
                                  !.value = IF migration.ret.ok THEN migration.ret
                                            ELSE Default(migration.chain)]
    /\ UNCHANGED <<engine, migration, model_inner, watcher>>

\* initial_state: the file is written when it does not exist, then
\* state.initial_state_update()
InitialStateUpdate ==
    /\ startup.pc = "update"
    /\ startup' = [startup EXCEPT !.pc = "done", !.chosen = "initial", !.updated = TRUE,
                                  !.wrote = startup.file = "missing"]
    /\ UNCHANGED <<engine, migration, model_inner, watcher>>

\* run() calls state(): a state type with a chain of n versions, an
\* environment, the files and the server's reply
InitStartup ==
    /\ NotStarted
    /\ model_inner = NoModel
    /\ watcher = NoWatcher
    /\ \E n \in 1..MaxChain, file \in {"missing", "read"} :
       \E parses \in IF file = "read" THEN SUBSET (1..n) ELSE {{}} :
           /\ migration = [chain |-> n, parses |-> parses, stack |-> <<>>, ret |-> NoRet]
           /\ \E dev_env \in BOOLEAN, dev_file \in DevFiles, reply \in Replies :
                  startup = [dev_env |-> dev_env, dev_file |-> dev_file, reply |-> reply,
                             file |-> file, pc |-> "state", chosen |-> "-", value |-> NoRet,
                             updated |-> FALSE, wrote |-> FALSE]

NextStartup ==
    \/ LoadDevState
    \/ GetState
    \/ ReadInitialState
    \/ CallMigrate
    \/ ReturnMigrate
    \/ UnwrapInitialState
    \/ InitialStateUpdate

SpecStartup == InitStartup /\ [][NextStartup]_vars

(***************************************************************************)
(* What the properties speak about                                         *)
(***************************************************************************)

\* the nodes of a tree of the "element" reconciler, parents before children,
\* each with the key of the wrapper whose children tuple holds it
RECURSIVE NodesW(_, _)
RECURSIVE NodesSeqW(_, _, _)
NodesSeqW(items, i, par) ==
    IF i > Len(items) THEN <<>> ELSE NodesW(items[i], par) \o NodesSeqW(items, i + 1, par)
NodesW(e, par) ==
    CASE e.k = "unit" -> <<>>
      [] e.k = "pair" -> NodesW(e.a, par) \o NodesW(e.b, par)
      [] e.k = "vec" -> NodesSeqW(e.items, 1, par)
      [] e.k = "opt" -> NodesSeqW(e.item, 1, par)
      [] e.k = "dyn" -> NodesW(e.inner, par)
      [] e.k = "el" ->
            <<[key |-> e.inner_key, ty |-> e.type, decl |-> e.decl, par |-> par]>>
            \o NodesW(e.children, e.inner_key)

\* the nodes of a tree with a Vec of children, parents before children
RECURSIVE NodesT(_, _)
RECURSIVE NodesKidsT(_, _, _)
NodesKidsT(kids, i, par) ==
    IF i > Len(kids) THEN <<>> ELSE NodesT(kids[i], par) \o NodesKidsT(kids, i + 1, par)
NodesT(e, par) ==
    <<[key |-> e.inner_key, ty |-> e.type, decl |-> e.decl, par |-> par]>>
    \o NodesKidsT(e.kids, 1, e.inner_key)

Nodes(tree) ==
    IF tree = NoTree THEN <<>>
    ELSE IF impl = "element" THEN NodesW(tree, NoKey) ELSE NodesT(tree, NoKey)

Range(f) == {f[i] : i \in DOMAIN f}
KeysOf(tree) == {n.key : n \in Range(Nodes(tree))}

\* the positions of the log that hold a call of the given kind
Calls(op) == {i \in DOMAIN log : log[i].op = op}
CallsFor(op, key) == {i \in Calls(op) : log[i].key = key}
AllCreatesOk == \A i \in Calls("create") : log[i].ok

\* the pass began with one entry per key of the old tree and no other entry
WasConsistent == DOMAIN pre_map = KeysOf(old_element)

\* C1: after the initial creation and after every completed diff in which
\* every create succeeds (the map having matched the old tree when the pass
\* began), the map holds an entry for exactly the keys of the current tree.
C1_MapMatchesTree ==
    (pc = "diffed" /\ WasConsistent /\ AllCreatesOk)
        => DOMAIN inner_map = KeysOf(new_elem)

\* a node of the new tree whose key the old tree holds with the same declared type
Kept(n) == \E o \in Range(Nodes(old_element)) : o.key = n.key /\ o.ty = n.ty

\* the handle stored under the key before the pass is still the one stored after it
SameHandle(key) ==
    /\ key \in DOMAIN pre_map
    /\ key \in DOMAIN inner_map
    /\ ~inner_map[key].fresh
    /\ CallsFor("remove", key) = {}
    /\ CallsFor("create", key) = {}

\* C2: a node whose key is in the old and in the new tree with the same
\* declared type keeps its map entry through the diff: the entry is neither
\* removed nor inserted again, the handle is the same, and update is the only
\* leaf call made for the key.
C2_KeptNodeOnlyUpdated ==
    (pc = "diffed" /\ impl \in {"element", "lib", "tree"})
        => \A n \in Range(Nodes(new_elem)) :
                (Kept(n) /\ n.key \in DOMAIN pre_map) => SameHandle(n.key)

\* the number of nodes of the tree that carry the key
NodesWithKey(tree, key) ==
    Cardinality({i \in DOMAIN Nodes(tree) : Nodes(tree)[i].key = key})

\* C3: diffing a tree against an exact copy of itself makes no create call
\* and no destroy, and exactly one update call for each node that has an
\* entry in the map.
C3_DiffAgainstCopy ==
    (pc \in {"diffed", "panicked"} /\ old_element = new_elem)
        => /\ Calls("create") = {}
           /\ Calls("remove") = {}
           /\ \A i \in Calls("update") : log[i].key \in KeysOf(new_elem)
           /\ \A n \in Range(Nodes(new_elem)) :
                Cardinality(CallsFor("update", n.key)) =
                    IF MapHas(pre_map, n.key, n.ty) THEN NodesWithKey(new_elem, n.key) ELSE 0

\* the identified nodes of a tree, in declaration order (the hint is recorded
\* in the first component of the declaration)
Identified(tree) == SelectSeq(Nodes(tree), LAMBDA n : n.decl[1] # 0)
HintsOf(tree) == [i \in DOMAIN Identified(tree) |-> Identified(tree)[i].decl[1]]
Distinct(q) == \A i, j \in DOMAIN q : i # j => q[i] # q[j]
SameTypes(a, b) ==
    /\ Len(Nodes(a)) = Len(Nodes(b))
    /\ \A i \in DOMAIN Nodes(a) : Nodes(a)[i].ty = Nodes(b)[i].ty
NodeWithHint(tree, h) ==
    Identified(tree)[CHOOSE i \in DOMAIN Identified(tree) : Identified(tree)[i].decl[1] = h]

\* the new tree is the old one with its identified children in another order
KeyedReorder ==
    /\ old_element # NoTree
    /\ Len(HintsOf(old_element)) >= 2
    /\ Distinct(HintsOf(old_element))
    /\ Distinct(HintsOf(new_elem))
    /\ Range(HintsOf(old_element)) = Range(HintsOf(new_elem))
    /\ HintsOf(old_element) # HintsOf(new_elem)
    /\ SameTypes(old_element, new_elem)

\* C4: reordering a list of identified children (such as [A#1, B#2, C#3] to
\* [C#3, A#1, B#2]) destroys nothing and creates nothing: every child is
\* only updated and every id is still backed by the handle it had before.
C4_KeyedReorderKeepsHandles ==
    (pc \in {"diffed", "panicked"} /\ impl \in {"element", "scenegraph"}
     /\ WasConsistent /\ KeyedReorder)
        => /\ Calls("create") = {}
           /\ Calls("remove") = {}
           /\ \A h \in Range(HintsOf(new_elem)) :
                /\ NodeWithHint(new_elem, h).key = NodeWithHint(old_element, h).key
                /\ SameHandle(NodeWithHint(new_elem, h).key)
                /\ Cardinality(CallsFor("update", NodeWithHint(new_elem, h).key)) = 1

\* q without its element at position p
Without(q, p) == [i \in 1..(Len(q) - 1) |-> IF i < p THEN q[i] ELSE q[i + 1]]

\* the identified children of the new tree are those of the old tree with one
\* more child inserted before a child that stays
SiblingInserted ==
    /\ old_element # NoTree
    /\ Distinct(HintsOf(old_element))
    /\ Distinct(HintsOf(new_elem))
    /\ Len(Nodes(new_elem)) = Len(Nodes(old_element)) + 1
    /\ \E p \in 1..(Len(HintsOf(new_elem)) - 1) :
            Without(HintsOf(new_elem), p) = HintsOf(old_element)

\* the identified children of the new tree are those of the old tree without
\* one child that stood before a child that stays
SiblingRemoved ==
    /\ old_element # NoTree
    /\ Distinct(HintsOf(old_element))
    /\ Distinct(HintsOf(new_elem))
    /\ Len(Nodes(old_element)) = Len(Nodes(new_elem)) + 1
    /\ \E p \in 1..(Len(HintsOf(old_element)) - 1) :
            Without(HintsOf(old_element), p) = HintsOf(new_elem)

\* the identified nodes that are in both trees have the type they had
StayingKeepType ==
    \A h \in Range(HintsOf(new_elem)) \cap Range(HintsOf(old_element)) :
        NodeWithHint(new_elem, h).ty = NodeWithHint(old_element, h).ty

\* C5: an identified node keeps its key and its handle when a sibling is
\* inserted or removed before it; the only create is that of the inserted
\* sibling, the only destroy that of the removed sibling.
C5_IdentifiedSurvivesShift ==
    (pc = "diffed" /\ impl = "element" /\ WasConsistent /\ AllCreatesOk
     /\ (SiblingInserted \/ SiblingRemoved) /\ StayingKeepType)
        => /\ \A h \in Range(HintsOf(new_elem)) \cap Range(HintsOf(old_element)) :
                /\ NodeWithHint(new_elem, h).key = NodeWithHint(old_element, h).key
                /\ SameHandle(NodeWithHint(new_elem, h).key)
           /\ \A i \in Calls("create") :
                log[i].decl[1] \in Range(HintsOf(new_elem)) \ Range(HintsOf(old_element))
           /\ \A i \in Calls("remove") :
                \E h \in Range(HintsOf(old_element)) \ Range(HintsOf(new_elem)) :
                    log[i].key = NodeWithHint(old_element, h).key
           /\ Cardinality(Calls("create")) + Cardinality(Calls("remove")) = 1

\* C6: a key is the hash of the parent key, then the position or (when the
\* node is identified) the hint, then the type tag; so two nodes of a tree
\* that carry the same hint under different parents, or with different
\* types, have different keys.  (Siblings never share a hint, so two nodes
\* of one tree with the same hint have different parents.)
C6_SameHintDistinctKeys ==
    (pc = "diffed" /\ impl \in {"scenegraph", "tree", "element"})
        => \A i, j \in DOMAIN Identified(new_elem) :
                (i # j /\ Identified(new_elem)[i].decl[1] = Identified(new_elem)[j].decl[1])
                    => Identified(new_elem)[i].key # Identified(new_elem)[j].key

\* a tree without what a tick may change in it without changing its shape:
\* the versions of the declared parameters (and the keys stamped on it)
RECURSIVE StripW(_)
StripW(e) ==
    CASE e.k = "pair" -> [e EXCEPT !.a = StripW(e.a), !.b = StripW(e.b)]
      [] e.k = "vec" -> [e EXCEPT !.items = [i \in 1..Len(e.items) |-> StripW(e.items[i])]]
      [] e.k = "opt" -> [e EXCEPT !.item = [i \in 1..Len(e.item) |-> StripW(e.item[i])]]
      [] e.k = "dyn" -> [e EXCEPT !.inner = StripW(e.inner)]
      [] e.k = "el" ->
            [e EXCEPT !.decl = <<e.decl[1], 0>>, !.inner_key = NoKey,
                      !.children = StripW(e.children)]
      [] OTHER -> e
RECURSIVE StripT(_)
StripT(e) ==
    [e EXCEPT !.decl = <<e.decl[1], 0>>, !.inner_key = NoKey,
              !.kids = [i \in 1..Len(e.kids) |-> StripT(e.kids[i])]]
Strip(tree) ==
    IF tree = NoTree THEN tree
    ELSE IF impl = "element" THEN StripW(tree) ELSE StripT(tree)

KeySeq(tree) == [i \in DOMAIN Nodes(tree) |-> Nodes(tree)[i].key]
DeclSeq(tree) == [i \in DOMAIN Nodes(tree) |-> Nodes(tree)[i].decl]

\* C7: key assignment is deterministic across ticks: two trees of the same
\* shape, types and hints get the same keys node for node, whatever their
\* parameter values and whatever the earlier ticks did.
C7_KeysDeterministic ==
    (pc \in {"diffed", "panicked"} /\ old_element # NoTree
     /\ Strip(old_element) = Strip(new_elem))
        => KeySeq(new_elem) = KeySeq(old_element)

\* a tick reified the shape of the previous tick with other parameter values
C7_Witness ==
    /\ pc = "diffed"
    /\ impl = "lib"
    /\ old_element # NoTree
    /\ Strip(old_element) = Strip(new_elem)
    /\ Len(Nodes(new_elem)) >= 3
    /\ \A i \in DOMAIN Nodes(new_elem) : DeclSeq(new_elem)[i] # DeclSeq(old_element)[i]
    /\ KeySeq(new_elem) = KeySeq(old_element)

\* the list of children a tree keeps under its root: the Vec<Text> child of
\* the "element" root, the children of the other roots
ItemsOf(tree) ==
    IF impl = "element" THEN tree.children.a.a.b.items ELSE tree.kids
WithItems(tree, items) ==
    IF impl = "element" THEN [tree EXCEPT !.children.a.a.b.items = items]
    ELSE [tree EXCEPT !.kids = items]
ItemKey(tree, i) ==
    IF impl = "element" THEN NodesW(ItemsOf(tree)[i], NoKey)[1].key
    ELSE ItemsOf(tree)[i].inner_key

\* the new tree is the old one with one more leaf at the end of a list of
\* at least two children without identity hints ([X, Y] becomes [X, Y, Z])
AppendedOne ==
    /\ old_element # NoTree
    /\ Len(ItemsOf(old_element)) >= 2
    /\ Len(ItemsOf(new_elem)) = Len(ItemsOf(old_element)) + 1
    /\ HintsOf(new_elem) = <<>>
    /\ Len(Nodes(new_elem)) = Len(Nodes(old_element)) + 1
    /\ Strip(old_element)
        = Strip(WithItems(new_elem, SubSeq(ItemsOf(new_elem), 1, Len(ItemsOf(old_element)))))

\* C8: when [X, Y] becomes [X, Y, Z] (no identity hints), exactly one create
\* call is made, for the new last position, no destroy is made, and X and Y
\* each get exactly one update and keep their handles.
C8_AppendCreatesOnlyLast ==
    (pc \in {"diffed", "panicked"} /\ AppendedOne /\ WasConsistent)
        => /\ Cardinality(Calls("create")) = 1
           /\ \A i \in Calls("create") :
                log[i].key = ItemKey(new_elem, Len(ItemsOf(new_elem)))
           /\ Calls("remove") = {}
           /\ \A i \in 1..Len(ItemsOf(old_element)) :
                /\ ItemKey(new_elem, i) = ItemKey(old_element, i)
                /\ SameHandle(ItemKey(new_elem, i))
                /\ Cardinality(CallsFor("update", ItemKey(new_elem, i))) = 1

\* a tick of the "element" reconciler appended one leaf to the list
C8_Witness ==
    /\ pc = "diffed"
    /\ impl = "element"
    /\ WasConsistent
    /\ AppendedOne
    /\ Cardinality(Calls("create")) = 1
    /\ Calls("remove") = {}
    /\ Cardinality(Calls("update")) >= Len(ItemsOf(old_element))

\* the keys of the parents under which the old (new) tree holds a node with the key
OldParents(key) == {o.par : o \in {x \in Range(Nodes(old_element)) : x.key = key}}
NewParents(key) == {n.par : n \in {x \in Range(Nodes(new_elem)) : x.key = key}}

\* C9: within the diff of one parent's children, every destroy of a removed
\* child is made before the first create of an added child of that parent,
\* for every shape of children (pair, list, optional, dynamic).
C9_DestroyBeforeCreate ==
    (pc \in {"diffed", "panicked"} /\ impl \in {"element", "tree"})
        => \A i \in Calls("remove"), j \in Calls("create") :
                (OldParents(log[i].key) \cap NewParents(log[j].key) # {}) => i < j

\* C10: the children added to one parent in one diff are created in the
\* order in which the parent declares them.
C10_CreatesInDeclarationOrder ==
    (pc \in {"diffed", "panicked"} /\ impl \in {"scenegraph", "lib", "element"}
     /\ Distinct(KeySeq(new_elem)))
        => \A i, j \in Calls("create") :
                i < j =>
                    \A a, b \in DOMAIN Nodes(new_elem) :
                        (/\ Nodes(new_elem)[a].key = log[i].key
                         /\ Nodes(new_elem)[b].key = log[j].key
                         /\ Nodes(new_elem)[a].par = Nodes(new_elem)[b].par
                         /\ a # b)
                            => a < b

\* the pairs <<old subtree, new subtree>> that the diff of old and new meets
\* with different declared types in the same place: the inner elements of a
\* DynamicElement (element.rs), the children with one key (scenegraph.rs),
\* the children at one position (tree.rs)
RECURSIVE SwapsW(_, _)
SwapsW(old, new) ==
    CASE new.k = "pair" -> SwapsW(old.a, new.a) \cup SwapsW(old.b, new.b)
      [] new.k = "vec" ->
            UNION {SwapsW(old.items[i], new.items[i]) :
                    i \in 1..(IF Len(new.items) < Len(old.items) THEN Len(new.items)
                              ELSE Len(old.items))}
      [] new.k = "opt" ->
            IF Len(new.item) = 1 /\ Len(old.item) = 1 THEN SwapsW(old.item[1], new.item[1])
            ELSE {}
      [] new.k = "dyn" ->
            IF TyOf(new.inner) # TyOf(old.inner) THEN {<<old.inner, new.inner>>}
            ELSE SwapsW(old.inner, new.inner)
      [] new.k = "el" -> SwapsW(old.children, new.children)
      [] OTHER -> {}
RECURSIVE SwapsG(_, _)
SwapsG(old, new) ==
    IF old.type # new.type THEN {<<old, new>>}
    ELSE UNION {SwapsG(KidWithKey(old.kids, new.kids[i].inner_key), new.kids[i]) :
                    i \in {j \in 1..Len(new.kids) : new.kids[j].inner_key \in KeysOfKids(old.kids)}}
RECURSIVE SwapsF(_, _)
SwapsF(old, new) ==
    IF old.type # new.type THEN {<<old, new>>}
    ELSE UNION {SwapsF(old.kids[i], new.kids[i]) :
                    i \in 1..(IF Len(new.kids) < Len(old.kids) THEN Len(new.kids)
                              ELSE Len(old.kids))}
Swaps ==
    IF old_element = NoTree \/ new_elem = NoTree THEN {}
    ELSE CASE impl = "element" -> SwapsW(old_element, new_elem)
           [] impl = "scenegraph" -> SwapsG(old_element, new_elem)
           [] impl = "tree" -> SwapsF(old_element, new_elem)
           [] OTHER -> {}

\* the nodes of a subtree, parents before children, and their keys
SubNodes(x) == IF impl = "element" THEN NodesW(x, NoKey) ELSE NodesT(x, NoKey)
SubKeys(x) == {n.key : n \in Range(SubNodes(x))}

\* C11: when the diff meets a node whose declared type differs from the type
\* of the old node in its place, it removes every key of the old subtree,
\* then makes a create call for every node of the new subtree, and makes no
\* update call for a key of either subtree.
C11_TypeSwapDestroysThenCreates ==
    (pc = "diffed" /\ WasConsistent /\ impl \in {"element", "scenegraph", "tree"})
        => \A sw \in Swaps :
            /\ \A k \in SubKeys(sw[1]) : CallsFor("remove", k) # {}
            /\ \A k \in SubKeys(sw[2]) : CallsFor("create", k) # {}
            /\ \A k \in SubKeys(sw[1]) \cup SubKeys(sw[2]) : CallsFor("update", k) = {}
            /\ \A i \in Calls("remove"), j \in Calls("create") :
                    (log[i].key \in SubKeys(sw[1]) /\ log[j].key \in SubKeys(sw[2])) => i < j

\* the root node of a subtree
SubRoot(x) == SubNodes(x)[1]

\* C12: on a type mismatch the root of the new subtree is created under the
\* scene node of the parent the node is declared under (the client's root
\* for the root of the tree), never under the scene node of the old node
\* that the diff has just destroyed.
C12_SwapCreatedUnderParent ==
    (pc = "diffed" /\ WasConsistent /\ AllCreatesOk
     /\ impl \in {"element", "scenegraph", "tree"})
        => \A sw \in Swaps :
            \A i \in CallsFor("create", SubRoot(sw[2]).key) :
                log[i].ty = SubRoot(sw[2]).ty
                    => /\ log[i].parent \in NewParents(SubRoot(sw[2]).key)
                       /\ log[i].parent # pre_map[SubRoot(sw[1]).key].space

\* the lenses of a tree: the subtrees behind a projector
RECURSIVE LensSubtrees(_)
LensSubtrees(e) ==
    IF e.lens THEN {e} ELSE UNION {LensSubtrees(e.kids[i]) : i \in 1..Len(e.kids)}
Lenses(tree) ==
    IF tree = NoTree \/ impl \notin {"scenegraph", "tree"} THEN {} ELSE LensSubtrees(tree)

\* the frame calls of the last frame pass made for the key
FramesFor(key) == {i \in DOMAIN frames : frames[i].key = key}

\* every node of the tree has its handle in the map
AllHandles(tree) == \A n \in Range(Nodes(tree)) : MapHas(inner_map, n.key, n.ty)

\* a frame pass has been made on the current tree since the last diff
FramePassed == pc = "idle" /\ projected # "-"

\* C13: in every frame pass the nodes of the subtree behind a lens get their
\* frame callback if the projector gives Some for the state of that pass
\* (exactly one each, every node having its handle), and none of them gets a
\* callback if the projector gives None; every pass decides this anew.
C13_LensFramesIffSome ==
    FramePassed
        => \A x \in Lenses(old_element) :
            /\ projected = "None"
                => \A k \in SubKeys(x) : FramesFor(k) = {}
            /\ (projected = "Some" /\ AllHandles(old_element))
                => \A k \in SubKeys(x) : Cardinality(FramesFor(k)) = 1

\* a frame pass in which the projector gave None: the root got its frame
\* callback, the handles of the wrapped subtree are in the map
C13_Witness ==
    /\ FramePassed
    /\ impl = "scenegraph"
    /\ projected = "None"
    /\ AllHandles(old_element)
    /\ \E x \in Lenses(old_element) : Cardinality(SubKeys(x)) = 2
    /\ frames # <<>>

\* the pairs <<old lens, new lens>> of lenses with one key whose wrapped
\* subtrees have the same shape, types and hints
KeptLenses ==
    {ox \in Lenses(old_element) \X Lenses(new_elem) :
        ox[1].inner_key = ox[2].inner_key /\ StripT(ox[1]) = StripT(ox[2])}

DiffedLenses ==
    {ox \in Lenses(old_element) \X Lenses(new_elem) : ox[1].inner_key = ox[2].inner_key}

\* C15: the diff is forwarded to the subtree behind a lens only in a tick in
\* which the projector gives Some: in a tick in which it gives None no
\* update, create or destroy is made for a node of the wrapped subtree.
C15_NoneForwardsNoDiff ==
    (pc \in {"diffed", "panicked"} /\ projected = "None" /\ WasConsistent)
        => \A ox \in DiffedLenses :
            \A k \in SubKeys(ox[1]) \cup SubKeys(ox[2]) :
                /\ CallsFor("update", k) = {}
                /\ CallsFor("create", k) = {}
                /\ CallsFor("remove", k) = {}

\* the create and update calls of the pass: the calls that are handed an
\* entry of the registry, and the registry's entries for an element type
Served == Calls("create") \cup Calls("update")
EntriesFor(type) == {r \in resources : r = ResourceOf(type)}
ReceivedBy(i) == ResourceOf(log[i].ty)

InstancesOf(type) == {k \in DOMAIN inner_map : inner_map[k].ty = type}

\* C17: an entry of the registry exists only once a create or update call of
\* an element type that uses it has been made, and a step of the reconciler
\* never removes an entry, also when it destroys every instance.
C17_EntryLazyAndKept ==
    /\ (resources # {} /\ old_element = NoTree)
            => \A r \in resources : \E i \in Served : ReceivedBy(i) = r
    /\ [][/\ resources \subseteq resources'
          /\ \A r \in resources' \ resources :
                \E i \in DOMAIN log' :
                    /\ log'[i].op \in {"create", "update"}
                    /\ ResourceOf(log'[i].ty) = r]_vars

\* the pass destroyed the last instances of a type and the type's entry stays
C17_Witness ==
    /\ pc = "diffed"
    /\ \E i \in Calls("remove") :
        /\ InstancesOf(log[i].ty) = {}
        /\ \A n \in Range(Nodes(new_elem)) : n.ty # log[i].ty
        /\ EntriesFor(log[i].ty) # {}

\* C18: two element types of different declared type never receive the same
\* registry entry in their create and update calls.
C18_OneEntryPerElementType ==
    (pc \in {"diffed", "panicked"} /\ impl # "lib")
        => \A i, j \in Served :
            log[i].ty # log[j].ty
                => /\ ReceivedBy(i) \in resources
                   /\ ReceivedBy(j) \in resources
                   /\ ReceivedBy(i) # ReceivedBy(j)

\* the keys of a subtree in the order a post-order walk meets them
RECURSIVE PostW(_)
RECURSIVE PostSeqW(_, _)
PostSeqW(items, i) ==
    IF i > Len(items) THEN <<>> ELSE PostW(items[i]) \o PostSeqW(items, i + 1)
PostW(e) ==
    CASE e.k = "unit" -> <<>>
      [] e.k = "pair" -> PostW(e.a) \o PostW(e.b)
      [] e.k = "vec" -> PostSeqW(e.items, 1)
      [] e.k = "opt" -> PostSeqW(e.item, 1)
      [] e.k = "dyn" -> PostW(e.inner)
      [] e.k = "el" ->
            PostW(e.children) \o (IF e.inner_key = NoKey THEN <<>> ELSE <<e.inner_key>>)
RECURSIVE PostT(_)
RECURSIVE PostKidsT(_, _)
PostKidsT(kids, i) ==
    IF i > Len(kids) THEN <<>> ELSE PostT(kids[i]) \o PostKidsT(kids, i + 1)
PostT(e) == PostKidsT(e.kids, 1) \o <<e.inner_key>>
Post(x) == IF impl = "element" THEN PostW(x) ELSE PostT(x)

\* the element nodes of a tree, each with the subtree below it
RECURSIVE ElsW(_)
ElsW(e) ==
    CASE e.k = "unit" -> {}
      [] e.k = "pair" -> ElsW(e.a) \cup ElsW(e.b)
      [] e.k = "vec" -> UNION {ElsW(e.items[i]) : i \in 1..Len(e.items)}
      [] e.k = "opt" -> UNION {ElsW(e.item[i]) : i \in 1..Len(e.item)}
      [] e.k = "dyn" -> ElsW(e.inner)
      [] e.k = "el" -> {e} \cup ElsW(e.children)
RECURSIVE ElsT(_)
ElsT(e) == {e} \cup UNION {ElsT(e.kids[i]) : i \in 1..Len(e.kids)}
Els(tree) ==
    IF tree = NoTree THEN {}
    ELSE IF impl = "element" THEN ElsW(tree) ELSE ElsT(tree)

\* the calls log[i - Len(p) + 1 .. i] are the removes of the keys p, in order
RemovedInOrder(i, p) ==
    /\ Len(p) <= i
    /\ \A j \in 1..Len(p) :
        /\ log[i - Len(p) + j].op = "remove"
        /\ log[i - Len(p) + j].key = p[j]
CreatedAfter(i) == {j \in Calls("create") : j > i /\ log[j].key = log[i].key /\ log[j].ok}

\* C19: every remove of the pass ends the post-order destroy of an old
\* subtree: the keys of the node's descendants are removed before the node's
\* own key, children first; a removed key that the pass does not create again
\* is not in the map afterwards, and a key that is not removed keeps its entry.
C19_DestroyPostOrderComplete ==
    (pc \in {"diffed", "panicked"} /\ impl \in {"element", "tree", "lib"})
        => /\ LET olds == Els(old_element)
              IN  \A i \in Calls("remove") :
                    /\ \E x \in olds :
                        x.inner_key = log[i].key /\ RemovedInOrder(i, Post(x))
                    /\ CreatedAfter(i) = {} => log[i].key \notin DOMAIN inner_map
           /\ \A k \in DOMAIN pre_map :
                CallsFor("remove", k) = {} => k \in DOMAIN inner_map

\* a subtree of at least two levels was destroyed
C19_Witness ==
    /\ pc = "diffed"
    /\ impl = "tree"
    /\ \E i \in Calls("remove") :
        \E x \in Els(old_element) :
            /\ x.inner_key = log[i].key
            /\ Len(Post(x)) >= 2
            /\ RemovedInOrder(i, Post(x))
            /\ \A k \in Range(Post(x)) : k \notin DOMAIN inner_map
    /\ \E k \in DOMAIN pre_map : CallsFor("remove", k) = {} /\ k \in DOMAIN inner_map

\* the nodes of the new tree that the pass created together with their
\* parent: <<i, j>> are the positions of the child's and the parent's create
CreatedWithParent ==
    LET ns == Range(Nodes(new_elem))
        cs == Calls("create")
    IN  UNION {{<<i, j>> : i \in {c \in cs : log[c].key = n.key /\ log[c].ty = n.ty},
                          j \in {c \in cs : log[c].key = n.par}}
               : n \in {x \in ns : x.par # NoKey}}

\* no two nodes of the new tree have the same key
NewKeysDistinct ==
    LET ns == Nodes(new_elem)
    IN  Cardinality({ns[i].key : i \in DOMAIN ns}) = Len(ns)

\* C20: when a subtree is created, the create call of a node and the insert
\* of its handle come before the create call of each of its children, and
\* the child is created under the scene node of that handle.
C20_CreatePreOrderUnderParent ==
    (pc \in {"diffed", "panicked"} /\ NewKeysDistinct)
        => \A ij \in CreatedWithParent :
            /\ ij[2] < ij[1]
            /\ log[ij[2]].ok
            /\ log[ij[1]].parent = NewHandle(log[ij[2]].ty, log[ij[2]].key).space

\* C20 with the failed create: when a subtree is created, the create call of
\* a node comes before the create call of each of its children; a child is
\* created under the scene node of its parent's handle when the parent's
\* create succeeded (the handle is in the map by then), and under the scene
\* node its parent was to be created under when the parent's create failed.
C20_CreatePreOrderWithFallback ==
    (pc \in {"diffed", "panicked"} /\ NewKeysDistinct)
        => \A ij \in CreatedWithParent :
            /\ ij[2] < ij[1]
            /\ log[ij[1]].parent = IF log[ij[2]].ok THEN log[ij[2]].key
                                   ELSE log[ij[2]].parent
            /\ (log[ij[2]].ok /\ pc = "diffed" /\ CallsFor("remove", log[ij[2]].key) = {})
                    => log[ij[2]].key \in DOMAIN inner_map

\* a node whose create failed, with a child created under the node's parent,
\* and a node whose create succeeded, with a child created under it
C20_Witness ==
    /\ pc = "diffed"
    /\ NewKeysDistinct
    /\ \E ij \in CreatedWithParent :
        ~log[ij[2]].ok /\ log[ij[1]].parent = log[ij[2]].parent
    /\ \E ij \in CreatedWithParent :
        log[ij[2]].ok /\ log[ij[1]].parent = log[ij[2]].key

\* the keys of the nodes the pass matched: a node of the new tree whose key
\* names a node of the same type in the old tree, with a handle of that type
\* when the pass began, and neither destroyed nor created again in the pass
MatchedKeys ==
    LET os == Range(Nodes(old_element))
        ns == Range(Nodes(new_elem))
    IN  {n.key : n \in {x \in ns :
            /\ \E o \in os : o.key = x.key /\ o.ty = x.ty
            /\ MapHas(pre_map, x.key, x.ty)
            /\ CallsFor("create", x.key) = {}
            /\ CallsFor("remove", x.key) = {}}}

\* the create calls for a node added below a matched node: <<i, k>> is the
\* position of the call and the key of the matched parent
AddedUnderMatched ==
    LET ns == Range(Nodes(new_elem))
        olds == KeysOf(old_element)
        ms == MatchedKeys
    IN  {ik \in Calls("create") \X ms :
            /\ log[ik[1]].key \notin olds
            /\ \E n \in ns :
                n.key = log[ik[1]].key /\ n.ty = log[ik[1]].ty /\ n.par = ik[2]}

\* C21: a node added below a matched node is created under the scene node
\* of the matched node's handle, not under the scene node the matched node
\* itself hangs under.
C21_AddedUnderMatchedNode ==
    (pc \in {"diffed", "panicked"} /\ old_element # NoTree /\ NewKeysDistinct)
        => \A ik \in AddedUnderMatched : log[ik[1]].parent = pre_map[ik[2]].space

\* the create calls of the pass that returned an error
FailedCreates == {i \in Calls("create") : ~log[i].ok}

\* C22: a create that returns an error is not fatal: the pass does not panic,
\* no handle is inserted under the node's key by that call, and every child
\* of the node is still created, under the scene node the failed node was to
\* be created under.
C22_CreateFailureNonFatal ==
    (pc \in {"diffed", "panicked"} /\ NewKeysDistinct)
        => \A i \in FailedCreates :
            /\ pc = "diffed"
            /\ (CreatedAfter(i) = {} /\ log[i].key \in DOMAIN inner_map)
                    => ~inner_map[log[i].key].fresh
            /\ \A n \in Range(Nodes(new_elem)) :
                n.par = log[i].key
                    => \E j \in CallsFor("create", n.key) :
                        j > i /\ log[j].parent = log[i].parent

\* the pairs <<old node, new node>> the diff matches (by key in
\* scenegraph.rs, by position in tree.rs) whose concrete kinds differ: another
\* element type, or a lens on one side and the bare element on the other
DifferentKind(old, new) == old.type # new.type \/ old.lens # new.lens
RECURSIVE KindSwapsG(_, _)
KindSwapsG(old, new) ==
    IF DifferentKind(old, new) THEN {<<old, new>>}
    ELSE UNION {KindSwapsG(KidWithKey(old.kids, new.kids[i].inner_key), new.kids[i]) :
                    i \in {j \in 1..Len(new.kids) : new.kids[j].inner_key \in KeysOfKids(old.kids)}}
RECURSIVE KindSwapsF(_, _)
KindSwapsF(old, new) ==
    IF DifferentKind(old, new) THEN {<<old, new>>}
    ELSE UNION {KindSwapsF(old.kids[i], new.kids[i]) :
                    i \in 1..(IF Len(new.kids) < Len(old.kids) THEN Len(new.kids)
                              ELSE Len(old.kids))}
KindSwaps ==
    IF old_element = NoTree \/ new_elem = NoTree THEN {}
    ELSE CASE impl = "scenegraph" -> KindSwapsG(old_element, new_elem)
           [] impl = "tree" -> KindSwapsF(old_element, new_elem)
           [] OTHER -> {}

\* C23: when the old node matched with a new node is of another concrete
\* kind (a lens matched with a bare element included), the pass does not
\* panic, and in a pass whose projectors give Some it takes the destroy and
\* recreate branch: the old node's keys are removed, the new node's are
\* created, and the new node is not updated against the old one.
C23_KindMismatchRecreates ==
    (pc \in {"diffed", "panicked"} /\ WasConsistent /\ NewKeysDistinct)
        => \A on \in KindSwaps :
            /\ pc = "diffed"
            /\ projected = "Some"
                => /\ \A k \in SubKeys(on[1]) : CallsFor("remove", k) # {}
                   /\ \A k \in SubKeys(on[2]) : CallsFor("create", k) # {}
                   /\ CallsFor("update", on[2].inner_key) = {}

\* C24: an update call is made with the declared parameters of the old
\* tree's node of the same key and type as the node updated, never with the
\* old parameters of a node of another key.
C24_UpdateGetsOldOfSameKey ==
    (pc \in {"diffed", "panicked"} /\ WasConsistent)
        => LET os == Range(Nodes(old_element))
           IN  \A i \in Calls("update") :
                \E o \in os :
                    o.key = log[i].key /\ o.ty = log[i].ty /\ o.decl = log[i].old

\* the frame calls of frame event f that the claim wants for a tree and a
\* map: one for each node of the tree with a handle of its type, in tree order
RECURSIVE LiveFrames(_, _, _, _)
LiveFrames(ns, i, m, f) ==
    IF i > Len(ns) THEN <<>>
    ELSE (IF ns[i].key # NoKey /\ MapHas(m, ns[i].key, ns[i].ty)
          THEN <<Fr(f, ns[i].key, ns[i].ty)>> ELSE <<>>)
         \o LiveFrames(ns, i + 1, m, f)
RECURSIVE LiveFramesOf(_, _, _, _)
LiveFramesOf(tree, m, f, n) ==
    IF f > n THEN <<>>
    ELSE LiveFrames(Nodes(tree), 1, m, f) \o LiveFramesOf(tree, m, f + 1, n)

\* C25: a frame pass on the current tree (the projectors giving Some) makes
\* exactly one frame call for each node of the tree that has a handle in the
\* map and none for a node without one, whatever diff ran before it: in
\* element.rs each frame event of the batch is one pass on the tree and the
\* map as they are before the diff.
C25_FramePassCallsLiveNodes ==
    /\ (FramePassed /\ projected = "Some")
            => frames = LiveFramesOf(old_element, inner_map, 1, 1)
    /\ (impl = "element" /\ pc = "diffed" /\ old_element # NoTree)
            => \E n \in 1..MaxFrames : frames = LiveFramesOf(old_element, pre_map, 1, n)

\* the frame calls made for frame event f
FramesOf(f) == SelectSeq(frames, LAMBDA x : x.f = f)

RECURSIVE OptPairsW(_, _, _)
OptPairsW(old, e, inner_key) ==
    CASE e.k = "pair" ->
            OptPairsW(old.a, e.a, generate_positional_inner_key(TyOf(e.a), inner_key, 0))
            \cup OptPairsW(old.b, e.b, generate_positional_inner_key(TyOf(e.b), inner_key, 1))
      [] e.k = "vec" ->
            UNION {OptPairsW(old.items[i], e.items[i],
                             generate_positional_inner_key(e.ety, inner_key, i - 1))
                   : i \in DOMAIN old.items \cap DOMAIN e.items}
      [] e.k = "opt" ->
            {<<old, e, inner_key>>}
            \cup UNION {OptPairsW(old.item[i], e.item[i], inner_key)
                        : i \in DOMAIN old.item \cap DOMAIN e.item}
      [] e.k = "dyn" ->
            IF TyOf(e.inner) = TyOf(old.inner) THEN OptPairsW(old.inner, e.inner, inner_key)
            ELSE {}
      [] e.k = "el" -> OptPairsW(old.children, e.children, inner_key)
      [] OTHER -> {}

\* the keys of the elements of an Option child
OptKeys(opt) == UNION {{n.key : n \in Range(NodesW(opt.item[i], NoKey))} : i \in DOMAIN opt.item}

\* the calls made for keys at or below the key of an Option child
IsPrefix(k, key) == Len(k) <= Len(key) /\ SubSeq(key, 1, Len(k)) = k
CallsBelow(k) == {i \in DOMAIN log : IsPrefix(k, log[i].key)}

\* C27: in a diff of the element reconciler, for an optional child that was
\* Some and is None the calls made at or below its key are one remove for
\* each key of the old child's subtree, none of which is in the map
\* afterwards; for one that was None and is Some they are one create for each
\* key of the new child's subtree, parents first; for one that is None in both
\* trees no call is made there and no key there enters the map.
C27_OptionalChild ==
    (impl = "element" /\ pc = "diffed" /\ old_element # NoTree)
        => \A x \in OptPairsW(old_element, new_elem, RootKeyW(new_elem)) :
            LET olds == OptKeys(x[1])
                news == OptKeys(x[2])
                here == CallsBelow(x[3])
            IN  /\ (x[1].item # <<>> /\ x[2].item = <<>>)
                    => /\ \A i \in here : log[i].op = "remove" /\ log[i].key \in olds
                       /\ \A k \in olds :
                            /\ Cardinality(CallsFor("remove", k)) = 1
                            /\ k \notin DOMAIN inner_map
                /\ (x[1].item = <<>> /\ x[2].item # <<>>)
                    => /\ \A i \in here : log[i].op = "create" /\ log[i].key \in news
                       /\ \A k \in news : Cardinality(CallsFor("create", k)) = 1
                       /\ \A i \in here : log[i].ok <=> log[i].key \in DOMAIN inner_map
                       /\ \A i, j \in here :
                            (\E n \in Range(NodesW(x[2].item[1], NoKey)) :
                                n.key = log[j].key /\ n.par = log[i].key) => i < j
                /\ (x[1].item = <<>> /\ x[2].item = <<>>)
                    => /\ here = {}
                       /\ \A k \in DOMAIN inner_map \ DOMAIN pre_map : ~IsPrefix(x[3], k)

\* an optional child with a subtree of two handles went from Some to None
C27_Witness ==
    /\ impl = "element"
    /\ pc = "diffed"
    /\ old_element # NoTree
    /\ \E x \in OptPairsW(old_element, new_elem, RootKeyW(new_elem)) :
        /\ x[1].item # <<>>
        /\ x[2].item = <<>>
        /\ Cardinality(OptKeys(x[1])) = 2
        /\ OptKeys(x[1]) \subseteq DOMAIN pre_map

\* the keys of a set of elements
KeySet(els) == {e.inner_key : e \in els}

\* the lists of children of the nodes of a tree
RECURSIVE KidListsT(_)
KidListsT(e) == {e.kids} \cup UNION {KidListsT(e.kids[i]) : i \in DOMAIN e.kids}
KidLists(tree) == IF tree = NoTree THEN {} ELSE KidListsT(tree)

\* C28: for the children of any node of the old tree as the previous list and
\* those of any node of the new tree as the next one, the DeltaSet that
\* diff_and_apply builds reports added = new \ old, removed = old \ new and
\* current = new by key; added and removed are disjoint, added is within
\* current, removed is disjoint from current, and every element of current
\* that is not added has its key in the set pushed first.
C28_DeltaSetPartitions ==
    (impl \in {"scenegraph", "lib"} /\ pc \in {"diffed", "panicked"})
        => \A olds \in KidLists(old_element), news \in KidLists(new_elem) :
            LET old_children == push_new(DeltaSetDefault, olds).current
                delta_set == DeltaOf(olds, news)
                old == KeysOfKids(olds)
                new == KeysOfKids(news)
                added == KeySet(delta_set.added)
                removed == KeySet(delta_set.removed)
                current == KeySet(delta_set.current)
            IN  /\ added = new \ old
                /\ removed = old \ new
                /\ current = new
                /\ added \cap removed = {}
                /\ added \subseteq current
                /\ removed \cap current = {}
                /\ \A e \in Difference(delta_set.current, delta_set.added) :
                        e.inner_key \in KeySet(old_children)
                /\ delta_set.added \subseteq Range(news)
                /\ delta_set.removed \subseteq Range(olds)

\* a diff whose root lost a child, kept one and got one
C28_Witness ==
    /\ impl = "scenegraph"
    /\ pc = "diffed"
    /\ old_element # NoTree
    /\ LET delta_set == DeltaOf(old_element.kids, new_elem.kids)
       IN  /\ delta_set.added # {}
           /\ delta_set.removed # {}
           /\ Difference(delta_set.current, delta_set.added) # {}

\* the key held a handle just before call i of the pass: the last insert or
\* removal of the key before i was an insert, or there was none and the key
\* was in the map when the pass began
Touches(k) == {j \in DOMAIN log : log[j].key = k /\ (log[j].op = "remove"
                                                    \/ (log[j].op = "create" /\ log[j].ok))}
PresentBefore(i, k) ==
    LET before == {j \in Touches(k) : j < i}
    IN  IF before = {} THEN k \in DOMAIN pre_map
        ELSE log[CHOOSE j \in before : \A x \in before : x <= j].op = "create"
Overwrites == {i \in Calls("create") : log[i].ok /\ PresentBefore(i, log[i].key)}

\* C29: no pass inserts a handle under a key that holds one at that moment,
\* and a handle that the map held when the pass began and does not hold
\* afterwards had its key removed by a destroy of the pass.
C29_NoSilentOverwrite ==
    pc \in {"diffed", "panicked"}
        => /\ Overwrites = {}
           /\ \A k \in DOMAIN pre_map :
                (k \notin DOMAIN inner_map \/ inner_map[k] # Aged(pre_map)[k])
                    => CallsFor("remove", k) # {}

\* the keys under which the map holds the handle of a FileWatcher
LiveWatchers == {k \in DOMAIN inner_map : inner_map[k].ty = "FileWatcher"}

\* C30: at every moment the watch tasks that are not aborted are one for each
\* FileWatcher handle in the map, held by that handle: the task of a handle
\* lives as long as the handle is in the map, it is aborted when the handle
\* leaves the map, and an update that changes the watched path leaves no
\* second task behind.
C30_OneWatchTaskPerLiveWatcher ==
    /\ watch_loops.held = LiveWatchers
    /\ watch_loops.loose = 0

\* a FileWatcher whose handle is in the map was updated with another path
C30_Witness ==
    /\ impl = "scenegraph"
    /\ pc = "diffed"
    /\ LiveWatchers # {}
    /\ \E i \in Calls("update") :
        log[i].ty = "FileWatcher" /\ log[i].old[2] # log[i].decl[2]

(***************************************************************************)
(* C31: the two arenas of tree.rs Trees                                    *)
(***************************************************************************)

\* a step of Trees::diff_and_apply
DiffAndApplyStep == impl = "tree" /\ pc = "idle" /\ pc' # "idle"

\* the trees flatten gives for the blueprints
FlattenedF == {StampF(t, <<0>>, 0) : t \in RootsF}

\* C31: Trees::diff_and_apply resets and reuses the arena of self.old, the
\* tree of two ticks ago (a new arena when there is none), never the arena
\* that backs the tree the diff of this tick reads as old; after the call
\* current is the tree flattened from the new blueprint, in the arena that
\* was reset, and old is the tree that was current before the call, in its
\* own arena.
C31_ArenaDoubleBuffering ==
    /\ [](impl = "tree" => bumps.current # NoBump /\ bumps.current # bumps.old)
    /\ [][DiffAndApplyStep =>
            /\ bumps'.current # bumps.current
            /\ bumps.old # NoBump => bumps'.current = bumps.old
            /\ bumps.old = NoBump => bumps'.current # NoBump
            /\ bumps'.old = bumps.current
            /\ old_element' = old_element
            /\ new_elem' \in FlattenedF]_vars

\* the third tree of a client: it is flattened into the arena of the first
\* tree, while the second tree, which the diff reads, keeps its own
C31_Witness ==
    /\ impl = "tree"
    /\ pc = "diffed"
    /\ old_element # NoTree
    /\ bumps.current = BumpNew({})
    /\ bumps.old # NoBump
    /\ log # <<>>

(***************************************************************************)
(* C32: deserialize_with_migrate                                           *)
(***************************************************************************)

\* the newest version of the chain the file deserializes as
Newest(file) == CHOOSE v \in file : \A w \in file : w <= v

\* C32: over a finite chain of versions whose earliest version has
\* Old = Self, deserialize_with_migrate returns; what it returns is the value
\* of the newest version the file deserializes as, converted by Into up to
\* the current version, and it is an error only if the file deserializes as
\* no version of the chain.
C32_MigrateTerminates ==
    /\ <>Migrated
    /\ [](Migrated =>
            /\ migration.ret.ok <=> migration.parses # {}
            /\ migration.ret.ok =>
                   /\ migration.ret.from = Newest(migration.parses)
                   /\ migration.ret.ver = migration.chain)

\* a file of the oldest of three versions has been read and converted twice
C32_Witness ==
    /\ Migrated
    /\ migration.chain >= 3
    /\ migration.ret.ok
    /\ migration.ret.from = 1
    /\ migration.ret.ver = migration.chain

(***************************************************************************)
(* C33: the map lookup of update                                           *)
(***************************************************************************)

\* C33: in the set-based reconcilers the lookup of the handle that update is
\* given never fails: whenever a pass comes to update a node whose key the
\* old and the new tree share, the map holds a handle of the node's type
\* under that key, whatever the passes before did and whatever the
\* projectors of the lenses gave in them.
C33_UpdateFindsInner ==
    (impl \in {"scenegraph", "lib"} /\ pc \in {"diffed", "panicked"})
        => \A i \in DOMAIN log : log[i].op # "get_mut"

(***************************************************************************)
(* C34: a failed create is not retried                                     *)
(***************************************************************************)

\* the scene node that the node with the key hands to its children, as the
\* map is after the pass: its own when it has a handle, else the one it was
\* handed itself
RECURSIVE SpaceBelow(_, _)
SpaceBelow(ns, key) ==
    IF key = NoKey THEN RootSpace
    ELSE IF key \in DOMAIN inner_map THEN inner_map[key].space
    ELSE SpaceBelow(ns, (CHOOSE x \in ns : x.key = key).par)

\* the nodes of the new tree that the old tree holds with the same key and
\* type and that had no handle when the pass began: their create failed
Unmade(ns) == {n \in ns : Kept(n) /\ n.key \notin DOMAIN pre_map}

\* C34: a diff of the element reconciler makes neither a create nor an update
\* call for a node that is in the old and in the new tree with the same type
\* and whose create failed, the node's key is not in the map after the diff
\* either, and the children of the node that the diff creates are created
\* under the scene node the node itself was handed as its parent.
C34_FailedCreateNotRetried ==
    (impl = "element" /\ pc = "diffed" /\ old_element # NoTree)
        => LET ns == Range(Nodes(new_elem))
           IN  \A n \in Unmade(ns) :
                /\ CallsFor("create", n.key) = {}
                /\ CallsFor("update", n.key) = {}
                /\ n.key \notin DOMAIN inner_map
                /\ \A c \in {x \in ns : x.par = n.key} :
                     \A j \in CallsFor("create", c.key) :
                        log[j].parent = SpaceBelow(ns, n.par)

\* a Model whose create had failed is declared with parameters that would
\* create, and gains a child in the same diff
C34_Witness ==
    /\ impl = "element"
    /\ pc = "diffed"
    /\ old_element # NoTree
    /\ LET ns == Range(Nodes(new_elem))
       IN  \E n \in Unmade(ns) :
            /\ CreateOk(n.ty, n.decl)
            /\ n.par # NoKey
            /\ \E c \in ns :
                /\ c.par = n.key
                /\ \E j \in CallsFor("create", c.key) :
                    log[j].ok /\ log[j].parent = n.par

(***************************************************************************)
(* C35: the order of the steps of a batch                                  *)
(***************************************************************************)

\* the steps of the last run of the closure that are calls of op
StepsOf(op) == {i \in DOMAIN steps : steps[i].op = op}

\* C35: a batch of k >= 1 Frame events runs, for each Frame event in order,
\* state.on_frame and then the frame pass over the tree of the batch before,
\* and after them one reify and one diff; the first batch, for which there is
\* no tree yet, runs neither on_frame nor a frame pass and creates the tree;
\* a batch without Frame events runs no reify, no diff and no callback.
C35_BatchOrder ==
    /\ (impl = "element" /\ pc \in {"diffed", "panicked"} /\ old_element # NoTree)
            => /\ batch >= 1
               /\ Len(steps) = 2 * batch + 2
               /\ \A f \in 1..batch :
                    /\ steps[2 * f - 1] = Step("on_frame", f)
                    /\ steps[2 * f] = Step("frame_recursive", f)
               /\ steps[2 * batch + 1].op = "reify"
               /\ steps[2 * batch + 2].op = "diff_same_type"
               /\ frames = LiveFramesOf(old_element, pre_map, 1, batch)
               /\ Calls("create") \cup Calls("update") \cup Calls("remove") # {}
    /\ (impl = "element" /\ pc \in {"diffed", "panicked"} /\ old_element = NoTree)
            => /\ batch >= 1
               /\ steps = <<Step("reify", 0), Step("create_inner_recursive", 0)>>
               /\ frames = <<>>
               /\ \A i \in DOMAIN log : log[i].op = "create"
    /\ (impl = "element" /\ pc = "idle")
            => /\ \A i \in DOMAIN steps : steps[i].op \in {"pong", "save_state"}
               /\ new_elem = NoTree
               /\ log = <<>>
               /\ frames = <<>>

\* a batch of two Frame events on a tree with handles: on_frame and the
\* frame pass for the first event, then both for the second
C35_Witness ==
    /\ impl = "element"
    /\ pc = "diffed"
    /\ old_element # NoTree
    /\ batch = 2
    /\ StepsOf("on_frame") = {1, 3}
    /\ StepsOf("frame_recursive") = {2, 4}
    /\ FramesOf(2) # <<>>

(***************************************************************************)
(* C36: who changes the key set of the map                                 *)
(***************************************************************************)

\* the keys the pass created with success, and the keys it removed
Made == {log[i].key : i \in {j \in Calls("create") : log[j].ok}}
Gone == {log[i].key : i \in Calls("remove")}

\* C36: the frame passes and the update calls of a pass of the element
\* reconciler leave the key set of the map as it is: a key that is in the map
\* after the pass and was not before was inserted by create_inner_recursive,
\* a key that was in the map and is not after the pass was removed by
\* destroy_inner_recursive, and the keys that only got frame and update calls
\* are in the map before and after.
C36_OnlyCreateAndDestroyChangeKeys ==
    (impl = "element" /\ pc = "diffed")
        => /\ (DOMAIN inner_map \ DOMAIN pre_map) \subseteq Made
           /\ (DOMAIN pre_map \ DOMAIN inner_map) \subseteq Gone
           /\ \A i \in Calls("update") :
                /\ log[i].key \in DOMAIN pre_map
                /\ log[i].key \notin Gone => log[i].key \in DOMAIN inner_map
           /\ \A i \in DOMAIN frames :
                /\ frames[i].key \in DOMAIN pre_map
                /\ frames[i].key \notin Gone => frames[i].key \in DOMAIN inner_map

\* a pass of frame and update calls only: the key set is what it was
C36_Witness ==
    /\ impl = "element"
    /\ pc = "diffed"
    /\ frames # <<>>
    /\ Calls("update") # {}
    /\ Calls("create") = {}
    /\ Calls("remove") = {}
    /\ Cardinality(DOMAIN pre_map) >= 3
    /\ DOMAIN inner_map = DOMAIN pre_map

(***************************************************************************)
(* C37: keys that are hashes of the path                                   *)
(***************************************************************************)

\* the keys are those of one position of the tree: the paths differ in the
\* type of the node only
SamePosition(k1, k2) ==
    /\ Len(k1) = Len(k2)
    /\ SubSeq(k1, 1, Len(k1) - 1) = SubSeq(k2, 1, Len(k2) - 1)

\* C37: with keys that are hashes of the path (lib.rs, no identify), two
\* elements with the same key, in one tree or in the old and the new tree,
\* have the same declared type; in the diff the downcast of the old
\* element's parameters to the type of the new element never fails, and
\* every update is given parameters of its own type (the hash is injective).
C37_EqualKeysSameType ==
    (impl = "lib" /\ pc \in {"diffed", "panicked"})
        => LET ns == Range(Nodes(new_elem)) \cup Range(Nodes(old_element))
           IN  /\ \A a, b \in ns : a.key = b.key => a.ty = b.ty
               /\ Calls("params") = {}
               /\ \A i \in Calls("update") :
                    \A o \in Range(Nodes(old_element)) :
                        o.key = log[i].key => o.ty = log[i].ty

\* a position of the tree changes its type while another node is updated:
\* the keys of the position differ, the old node is removed, the new created
C37_Witness ==
    /\ impl = "lib"
    /\ pc = "diffed"
    /\ \E o \in Range(Nodes(old_element)), n \in Range(Nodes(new_elem)) :
        /\ SamePosition(o.key, n.key)
        /\ o.ty # n.ty
        /\ CallsFor("remove", o.key) # {}
        /\ CallsFor("create", n.key) # {}
    /\ \E i \in Calls("update") : Len(log[i].key) > 2

(***************************************************************************)
(* C38: the parts a Model no longer declares                               *)
(***************************************************************************)

\* C38: after Model::update has returned, the handle's model_parts holds no
\* part for a path that the old declaration has and the new one has not,
\* whether or not the parts of the new declaration resolved.
C38_RemovedPartsLeaveTable ==
    model_inner.updated
        => (PathsOf(model_inner.old_decl) \ PathsOf(model_inner.decl))
                \cap model_inner.model_parts = {}

(***************************************************************************)
(* C39: the modifications a FileWatcher records                            *)
(***************************************************************************)

\* C39: a modification that the watch task has recorded for the path the
\* node declares is not lost, wherever its store falls among the load and the
\* reset of update: until on_change is called for it the flag is still set or
\* update has loaded true and is on its way to the call, and the call comes
\* at a later step of update; one update calls on_change at most once.
C39_RecordedModificationNotified ==
    /\ [](watcher.unseen => watcher.modified \/ watcher.upc \in {"reset", "call"})
    /\ (watcher.unseen ~> ~watcher.unseen)
    /\ [](watcher.calls <= 1)

\* a store fell between the load and the reset of an update, and that update
\* has called on_change after it
C39_Witness ==
    /\ watcher.upc = "idle"
    /\ watcher.raced
    /\ watcher.calls = 1
    /\ ~watcher.unseen
    /\ ~watcher.modified

(***************************************************************************)
(* C40: the state the client starts with                                   *)
(***************************************************************************)

\* C40: when state() has returned, the state is the dev state file's exactly
\* when ASTEROIDS_DEV is set and that file parses; otherwise the server's
\* saved state exactly when it parses; otherwise the initial state, which is
\* the initial-state file migrated from the newest version it parses as to
\* the current one, or State::default() when the file is missing or parses
\* as no version; initial_state_update has been applied exactly to the
\* initial state; and no file or saved data, however bad, leaves the client
\* without a state (only a failed get_state call does).
C40_StartupPrecedence ==
    startup.pc = "done" =>
        LET dev == startup.dev_env /\ startup.dev_file = "ok"
            saved == ~dev /\ startup.reply = "ok"
            initial == ~dev /\ startup.reply \in {"none", "bad"}
            current == Deserialize({migration.chain}, migration.chain)
        IN  /\ startup.chosen = "dev" <=> dev
            /\ startup.chosen = "server" <=> saved
            /\ startup.chosen = "initial" <=> initial
            /\ startup.chosen = "none" => startup.reply = "err"
            /\ startup.chosen \in {"dev", "server"} => startup.value = current
            /\ startup.chosen = "initial" =>
                   startup.value =
                       IF startup.file = "read" /\ migration.parses # {}
                       THEN [ok |-> TRUE, from |-> Newest(migration.parses),
                             ver |-> migration.chain]
                       ELSE Default(migration.chain)
            /\ startup.updated <=> startup.chosen = "initial"

\* ASTEROIDS_DEV is set but the dev file does not parse, the server's data
\* does not parse either, and the initial-state file was migrated from its
\* oldest version
C40_Witness ==
    /\ startup.pc = "done"
    /\ startup.dev_env
    /\ startup.dev_file = "bad"
    /\ startup.reply = "bad"
    /\ startup.chosen = "initial"
    /\ startup.value.from = 1
    /\ startup.value.ver = migration.chain
    /\ migration.chain >= 3
    /\ startup.updated

====
